---------------------------- MODULE Spec2Model ----------------------------
(***************************************************************************)
(* PixelLock: a payload is hidden in the low bits of an image's samples    *)
(* (STEGFILE container) or in zero-width characters between emoji (EMOJ    *)
(* container), optionally gzip-compressed and AES-GCM encrypted.           *)
(*                                                                         *)
(* The model follows one carrier from a sender to a recipient:             *)
(*   sender     the hide page (HidePage.handleEmbed) or the emoji hide     *)
(*              page (EmojiHidePage.handleGenerate) builds a carrier;      *)
(*   transfer   the carrier is saved and handed over, possibly with one    *)
(*              bit or one character changed on the way;                   *)
(*   recipient  the reveal page (RevealPage.handleReveal) or the emoji     *)
(*              reveal page (EmojiRevealPage.handleReveal) reads it.       *)
(*                                                                         *)
(* Conventions.                                                            *)
(*  - A byte array (Uint8Array) is a sequence of 0..255; index i of the    *)
(*    source is index i+1 here.                                            *)
(*  - A string is a sequence of Unicode scalar values.                     *)
(*  - TLC's integers are 32-bit signed.  The one 32-bit unsigned value     *)
(*    whose every bit matters, the CRC, is held as two 16-bit halves       *)
(*    <<hi, lo>>; a length read from 4 or 8 bytes is capped at U32Cap,     *)
(*    far above every buffer length of the model.                          *)
(*  - The platform's AES-GCM, PBKDF2 and gzip are replaced by small        *)
(*    stand-ins with the same interface (see each definition).             *)
(*  - The canvas is taken to be lossless: getImageData returns the         *)
(*    samples putImageData stored.                                         *)
(*  - A click handler runs only while its button is enabled: the button's  *)
(*    `disabled` expression is part of the guard of the click action.      *)
(*  - Math.random and crypto.getRandomValues are a parameter `seed`.       *)
(***************************************************************************)
EXTENDS Integers, Sequences, FiniteSets, TLC

(***************************************************************************)
(* Bounds of the model.                                                    *)
(***************************************************************************)
ImgW == 17
ImgH == 6
MaxSeed == 2

(***************************************************************************)
(* constants.ts                                                            *)
(***************************************************************************)
MAGIC_BYTES_EMOJI == <<69, 77, 79, 74>>
MAGIC_BYTES_FILE == <<83, 84, 69, 71, 70, 73, 76, 69>>
VERSION == 1
SALT_LENGTH == 16
IV_LENGTH == 12
ITERATIONS == 200000
FLAG_ENCRYPTED == 1
FLAG_COMPRESSED == 2
FLAG_IS_IMAGE == 4
FLAG_IS_AUDIO == 8
HEADER_STATIC_SIZE == 16

(***************************************************************************)
(* Arithmetic helpers.                                                     *)
(***************************************************************************)
Pow2(n) == 2 ^ n
U32Cap == 1073741824
Min(a, b) == IF a < b THEN a ELSE b
Max(a, b) == IF a > b THEN a ELSE b
CeilDiv(a, b) == (a + b - 1) \div b
\* flags & f, for f a power of two
HasFlag(flags, f) == (flags \div f) % 2 = 1
\* flags |= f
SetFlag(flags, f) == IF HasFlag(flags, f) THEN flags ELSE flags + f

RECURSIVE SumSeq(_, _)
SumSeq(s, i) == IF i > Len(s) THEN 0 ELSE (i * s[i] + SumSeq(s, i + 1)) % 65536

\* a ^ b on 4-bit values, bit by bit, tabulated once
XorNibble ==
  [a \in 0..15 |-> [b \in 0..15 |->
     ((a + b) % 2)
     + 2 * (((a \div 2) + (b \div 2)) % 2)
     + 4 * (((a \div 4) + (b \div 4)) % 2)
     + 8 * (((a \div 8) + (b \div 8)) % 2)]]

\* a ^ b on 16-bit values
Xor(a, b) ==
  XorNibble[a % 16][b % 16]
  + 16 * XorNibble[(a \div 16) % 16][(b \div 16) % 16]
  + 256 * XorNibble[(a \div 256) % 16][(b \div 256) % 16]
  + 4096 * XorNibble[(a \div 4096) % 16][(b \div 4096) % 16]

Slice(s, from, to) == [i \in 1..Max(0, Min(to, Len(s)) - from) |-> s[from + i]]

(***************************************************************************)
(* numToBytes, bytesToNum, bigIntToBytes, bytesToBigInt: big-endian.       *)
(***************************************************************************)
\* A writer that puts the least significant byte first.
numToBytes_LE(num, bytes) ==
  [i \in 1..bytes |-> (num \div Pow2(8 * (i - 1))) % 256]

numToBytes(num, bytes) ==
  [i \in 1..bytes |-> (num \div Pow2(8 * (bytes - i))) % 256]

RECURSIVE bytesToNumFrom(_, _, _)
bytesToNumFrom(arr, i, num) ==
  IF i > Len(arr) THEN num
  ELSE IF num >= U32Cap \div 256 THEN U32Cap
  ELSE bytesToNumFrom(arr, i + 1, num * 256 + arr[i])

bytesToNum(arr) == bytesToNumFrom(arr, 1, 0)

bigIntToBytes(num) ==
  [i \in 1..8 |-> IF i <= 4 THEN 0 ELSE (num \div Pow2(8 * (8 - i))) % 256]

bytesToBigInt(arr) == bytesToNumFrom(arr, 1, 0)

concatBytes(a, b) == a \o b

(***************************************************************************)
(* crc32: bitwise, polynomial 0xEDB88320, as <<high half, low half>>.      *)
(***************************************************************************)
CRC_POLY_HI == 60856
CRC_POLY_LO == 33568

crc32Shift(crc) ==
  LET hi == crc[1] \div 2
      lo == (crc[2] \div 2) + (crc[1] % 2) * 32768
  IN  IF crc[2] % 2 = 1
        THEN <<Xor(hi, CRC_POLY_HI), Xor(lo, CRC_POLY_LO)>>
        ELSE <<hi, lo>>

RECURSIVE crc32Bits(_, _)
crc32Bits(crc, j) ==
  IF j = 0 \/ crc[1] < 0 THEN crc ELSE crc32Bits(crc32Shift(crc), j - 1)

RECURSIVE crc32From(_, _, _)
crc32From(arr, i, crc) ==
  IF i > Len(arr) \/ crc[1] < 0 THEN crc
  ELSE crc32From(arr, i + 1, crc32Bits(<<crc[1], Xor(crc[2], arr[i])>>, 8))

\* A checksum that depends on the length only.
crc32_Length(arr) == <<0, Len(arr) % 65536>>

crc32(arr) ==
  LET crc == crc32From(arr, 1, <<65535, 65535>>)
  IN  <<65535 - crc[1], 65535 - crc[2]>>

\* numToBytes(crc32(x), 4)
crcToBytes(crc) ==
  <<crc[1] \div 256, crc[1] % 256, crc[2] \div 256, crc[2] % 256>>

\* bytesToNum(read(4)) of a stored CRC, kept in halves like crc32
bytesToCrc(arr) ==
  LET b(i) == IF i <= Len(arr) THEN arr[i] ELSE 0
      n == Len(arr)
  IN  IF n >= 4 THEN <<b(n - 3) * 256 + b(n - 2), b(n - 1) * 256 + b(n)>>
      ELSE IF n = 3 THEN <<b(1), b(2) * 256 + b(3)>>
      ELSE IF n = 2 THEN <<0, b(1) * 256 + b(2)>>
      ELSE IF n = 1 THEN <<0, b(1)>>
      ELSE <<0, 0>>

(***************************************************************************)
(* TextEncoder.encode and TextDecoder.decode (UTF-8).  The decoder is the  *)
(* platform's default one: it drops one leading byte-order mark and        *)
(* replaces each ill-formed subsequence by U+FFFD.                         *)
(***************************************************************************)
REPLACEMENT_CHAR == 65533
BOM_CHAR == 65279

Utf8Char(cp) ==
  IF cp < 128 THEN <<cp>>
  ELSE IF cp < 2048 THEN <<192 + (cp \div 64), 128 + (cp % 64)>>
  ELSE IF cp < 65536
    THEN <<224 + (cp \div 4096), 128 + ((cp \div 64) % 64), 128 + (cp % 64)>>
  ELSE <<240 + (cp \div 262144), 128 + ((cp \div 4096) % 64),
         128 + ((cp \div 64) % 64), 128 + (cp % 64)>>

RECURSIVE TextEncode(_)
TextEncode(str) ==
  IF str = <<>> THEN <<>> ELSE Utf8Char(Head(str)) \o TextEncode(Tail(str))

RECURSIVE Utf8DecodeFrom(_, _)
RECURSIVE Utf8Continue(_, _, _, _, _, _, _)
Utf8Continue(bytes, i, k, need, cp, lo, hi) ==
  IF k > need THEN <<cp>> \o Utf8DecodeFrom(bytes, i + need + 1)
  ELSE IF i + k > Len(bytes) THEN <<REPLACEMENT_CHAR>>
  ELSE IF bytes[i + k] < lo \/ bytes[i + k] > hi
    THEN <<REPLACEMENT_CHAR>> \o Utf8DecodeFrom(bytes, i + k)
  ELSE Utf8Continue(bytes, i, k + 1, need, cp * 64 + (bytes[i + k] - 128), 128, 191)

Utf8DecodeFrom(bytes, i) ==
  IF i > Len(bytes) THEN <<>>
  ELSE LET b == bytes[i] IN
    IF b < 128 THEN <<b>> \o Utf8DecodeFrom(bytes, i + 1)
    ELSE IF b >= 194 /\ b <= 223
      THEN Utf8Continue(bytes, i, 1, 1, b - 192, 128, 191)
    ELSE IF b >= 224 /\ b <= 239
      THEN Utf8Continue(bytes, i, 1, 2, b - 224,
                        IF b = 224 THEN 160 ELSE 128, IF b = 237 THEN 159 ELSE 191)
    ELSE IF b >= 240 /\ b <= 244
      THEN Utf8Continue(bytes, i, 1, 3, b - 240,
                        IF b = 240 THEN 144 ELSE 128, IF b = 244 THEN 143 ELSE 191)
    ELSE <<REPLACEMENT_CHAR>> \o Utf8DecodeFrom(bytes, i + 1)

TextDecode(bytes) ==
  IF Len(bytes) >= 3 /\ bytes[1] = 239 /\ bytes[2] = 187 /\ bytes[3] = 191
    THEN Utf8DecodeFrom(bytes, 4)
    ELSE Utf8DecodeFrom(bytes, 1)

(***************************************************************************)
(* crypto.ts.  The Web Crypto and Compression Streams calls are replaced   *)
(* by stand-ins:                                                           *)
(*  - generateSalt / generateIV draw from the random source; the draw is   *)
(*    the parameter seed.                                                  *)
(*  - deriveKey (PBKDF2) is a key that records what it was derived from,   *)
(*    so two keys are equal exactly when password, salt and iteration      *)
(*    count are.                                                           *)
(*  - encryptData / decryptData (AES-GCM) add a keystream to the plaintext *)
(*    and append a 16-byte tag computed from key, iv and ciphertext;       *)
(*    decryptData throws when the tag does not match.                      *)
(*  - gzip is a run-length code behind the two gzip magic bytes: like      *)
(*    gzip, its output can be shorter than, as long as or longer than its  *)
(*    input, and gunzip throws on anything that is not its output.         *)
(***************************************************************************)
TAG_LENGTH == 16

generateSalt(seed) == [i \in 1..SALT_LENGTH |-> (seed * 16 + i) % 256]

generateIV(seed, length) == [i \in 1..length |-> (seed * 40 + 3 * i) % 256]

deriveKey(password, salt, iterations) ==
  [password |-> TextEncode(password), salt |-> salt, iterations |-> iterations]

KeyMix(key, iv) ==
  (SumSeq(key.password, 1) + 3 * SumSeq(key.salt, 1) + 5 * SumSeq(iv, 1)
   + 7 * (key.iterations % 65536) + 11 * (key.iterations \div 65536)) % 65536

GcmTag(key, iv, ct) ==
  LET mix == KeyMix(key, iv)
      sum == SumSeq(ct, 1)
  IN  [i \in 1..TAG_LENGTH |->
         IF i = 1 THEN mix \div 256
         ELSE IF i = 2 THEN mix % 256
         ELSE IF i = 3 THEN sum \div 256
         ELSE IF i = 4 THEN sum % 256
         ELSE IF i = 5 THEN Len(ct) % 256
         ELSE (mix + i) % 256]

encryptData(data, key, iv) ==
  LET mix == KeyMix(key, iv)
      ct == [i \in 1..Len(data) |-> (data[i] + mix + 13 * i) % 256]
  IN  ct \o GcmTag(key, iv, ct)

\* A decryption without authentication: the tag is dropped unread.
decryptData_NoTag(encryptedData, key, iv) ==
  LET n == Max(0, Len(encryptedData) - TAG_LENGTH)
      mix == KeyMix(key, iv)
  IN  [ok |-> TRUE,
       data |-> [i \in 1..n |-> (encryptedData[i] + 256 * 64 - mix - 13 * i) % 256]]

\* [ok |-> FALSE] stands for the throw "Decryption failed. ..."
decryptData(encryptedData, key, iv) ==
  IF Len(encryptedData) < TAG_LENGTH THEN [ok |-> FALSE, data |-> <<>>]
  ELSE LET n == Len(encryptedData) - TAG_LENGTH
           ct == SubSeq(encryptedData, 1, n)
           tag == SubSeq(encryptedData, n + 1, n + TAG_LENGTH)
           mix == KeyMix(key, iv)
       IN  IF tag # GcmTag(key, iv, ct) THEN [ok |-> FALSE, data |-> <<>>]
           ELSE [ok |-> TRUE,
                 data |-> [i \in 1..n |-> (ct[i] + 256 * 64 - mix - 13 * i) % 256]]

GZIP_MAGIC == <<31, 139>>

RECURSIVE RunLength(_, _)
RunLength(data, i) ==
  IF i < Len(data) /\ data[i + 1] = data[i] THEN 1 + RunLength(data, i + 1) ELSE 1

RECURSIVE RunsFrom(_, _)
RunsFrom(data, i) ==
  IF i > Len(data) THEN <<>>
  ELSE LET r == Min(RunLength(data, i), 255)
       IN  <<r, data[i]>> \o RunsFrom(data, i + r)

Gzip(data) == GZIP_MAGIC \o RunsFrom(data, 1)

RECURSIVE ExpandFrom(_, _)
ExpandFrom(z, i) ==
  IF i > Len(z) THEN <<>>
  ELSE [k \in 1..z[i] |-> z[i + 1]] \o ExpandFrom(z, i + 2)

Gunzip(z) ==
  IF Len(z) < 2 \/ SubSeq(z, 1, 2) # GZIP_MAGIC \/ Len(z) % 2 # 0
       \/ z # Gzip(ExpandFrom(z, 3))
    THEN [ok |-> FALSE, data |-> <<>>]
    ELSE [ok |-> TRUE, data |-> ExpandFrom(z, 3)]

\* window.CompressionStream missing: the data comes back unchanged
compressData(data, hasCompressionStream) ==
  IF ~hasCompressionStream THEN data ELSE Gzip(data)

\* window.DecompressionStream missing: the data comes back unchanged
decompressData(data, hasDecompressionStream) ==
  IF ~hasDecompressionStream THEN [ok |-> TRUE, data |-> data] ELSE Gunzip(data)

(***************************************************************************)
(* steganography.ts                                                        *)
(***************************************************************************)
\* An absent optional argument (salt?: Uint8Array, iv?: Uint8Array).
Undefined == <<-1>>

\* A writer that adds the bits to the sample instead of replacing its low bits.
setLsbs_Add(byte, bits, depth) == (byte + (bits % Pow2(depth))) % 256

setLsbs(byte, bits, depth) ==
  (byte - (byte % Pow2(depth))) + (bits % Pow2(depth))

getLsbs(byte, depth) == byte % Pow2(depth)

\* A channel count that takes the alpha byte in both modes.
Channels_Rgba(useAlpha) == 4

Channels(useAlpha) == IF useAlpha THEN 4 ELSE 3

estimateHeaderSize(fileName, mimeType, isEncrypted) ==
  LET baseFixed == 8 + 1 + 1 + 2 + 2 + 8 + 4 + 4
      size == baseFixed + Len(TextEncode(fileName)) + Len(TextEncode(mimeType))
  IN  IF isEncrypted THEN size + 2 + 16 + 1 + 4 + 1 + 12 ELSE size

calculateMaxPayloadCapacity(width, height, depth, headerSize, isEncrypted, useAlpha) ==
  LET totalPixels == width * height
      totalBits == totalPixels * Channels(useAlpha) * depth
      totalBytes == totalBits \div 8
      encryptionOverhead == IF isEncrypted THEN 16 ELSE 0
  IN  Max(0, totalBytes - headerSize - encryptionOverhead)

\* [ok |-> FALSE] stands for the throw "Encrypted flag set but missing Salt or IV".
\* iterations = 0 stands for an absent iterations argument (iterations || 200000).
buildStegFileHeader(fileName, mimeType, originalSize, flags, salt, iv, iterations) ==
  LET encName == TextEncode(fileName)
      encMime == TextEncode(mimeType)
      parts == MAGIC_BYTES_FILE \o <<VERSION>> \o <<flags>>
               \o numToBytes(Len(encName), 2) \o encName
               \o numToBytes(Len(encMime), 2) \o encMime
               \o bigIntToBytes(originalSize)
      crypto == numToBytes(Len(salt), 2) \o salt
                \o <<1>> \o numToBytes(IF iterations = 0 THEN 200000 ELSE iterations, 4)
                \o <<Len(iv)>> \o iv
      partialHeader == IF HasFlag(flags, FLAG_ENCRYPTED) THEN parts \o crypto ELSE parts
  IN  IF HasFlag(flags, FLAG_ENCRYPTED) /\ (salt = Undefined \/ iv = Undefined)
        THEN [ok |-> FALSE, bytes |-> <<>>]
        ELSE [ok |-> TRUE,
              bytes |-> concatBytes(partialHeader, crcToBytes(crc32(partialHeader)))]

\* A bit order that takes the least significant bit of each byte first.
BlobBit_LsbFirst(fullDataBlob, bitStreamIndex) ==
  IF bitStreamIndex < Len(fullDataBlob) * 8
    THEN (fullDataBlob[(bitStreamIndex \div 8) + 1]
            \div Pow2(bitStreamIndex % 8)) % 2
    ELSE 0

\* Bit bitStreamIndex of the blob, most significant bit of each byte first;
\* 0 past the end (the else branch `bitsToEmbed << 1`).
BlobBit(fullDataBlob, bitStreamIndex) ==
  IF bitStreamIndex < Len(fullDataBlob) * 8
    THEN (fullDataBlob[(bitStreamIndex \div 8) + 1]
            \div Pow2(7 - (bitStreamIndex % 8))) % 2
    ELSE 0

\* The value of bitsToEmbed for a sample whose first bit is bitStreamIndex.
RECURSIVE BitsToEmbed(_, _, _)
BitsToEmbed(fullDataBlob, bitStreamIndex, b) ==
  IF b = 0 THEN 0
  ELSE 2 * BitsToEmbed(fullDataBlob, bitStreamIndex, b - 1)
       + BlobBit(fullDataBlob, bitStreamIndex + b - 1)

\* A capacity that never counts the alpha channel.
TotalBytesAvailable_Rgb(imageData, depth, useAlpha) ==
  (imageData.width * imageData.height * 3 * depth) \div 8

TotalBytesAvailable(imageData, depth, useAlpha) ==
  (imageData.width * imageData.height * Channels(useAlpha) * depth) \div 8

\* The loops visit the samples pixel by pixel, channel by channel, and give
\* each visited sample `depth` bits: the n-th visited sample (from 0) starts
\* at bit n * depth, and the loops stop at the first sample whose first bit
\* is past the blob.
EmbedLoops(imageData, fullDataBlob, depth, useAlpha) ==
  LET pixels == imageData.data
      totalBits == Len(fullDataBlob) * 8
      channels == Channels(useAlpha)
      Sample(idx) ==
        LET c == idx % 4
            n == (idx \div 4) * channels + c
        IN  IF c < channels /\ n * depth < totalBits
              THEN setLsbs(pixels[idx + 1],
                           BitsToEmbed(fullDataBlob, n * depth, depth), depth)
              ELSE pixels[idx + 1]
  IN  [imageData EXCEPT !.data = [i \in 1..Len(pixels) |-> Sample(i - 1)]]

\* A capacity check placed after the loops: the buffer is written first.
BufferAtThrow_AfterLoops(imageData, fullDataBlob, depth, useAlpha) ==
  EmbedLoops(imageData, fullDataBlob, depth, useAlpha)

\* The buffer when "Data exceeds capacity" is thrown: the check stands
\* before the loops, so no sample has been written.
BufferAtThrow(imageData, fullDataBlob, depth, useAlpha) == imageData

embedData(imageData, fullDataBlob, depth, useAlpha) ==
  IF Len(fullDataBlob) > TotalBytesAvailable(imageData, depth, useAlpha)
    THEN [ok |-> FALSE,
          imageData |-> BufferAtThrow(imageData, fullDataBlob, depth, useAlpha)]
    ELSE [ok |-> TRUE,
          imageData |-> EmbedLoops(imageData, fullDataBlob, depth, useAlpha)]

\* The k-th bit (from 0) that readNextByte pushes on bitBuffer: sample
\* k div depth in visiting order, its low bits from the highest down.
StreamBit(pixels, depth, channels, k) ==
  LET n == k \div depth
      val == pixels[4 * (n \div channels) + (n % channels) + 1]
  IN  (getLsbs(val, depth) \div Pow2(depth - 1 - (k % depth))) % 2

\* The j-th byte (from 0) returned by readNextByte.
readNextByte(pixels, depth, channels, j) ==
  LET bit(i) == StreamBit(pixels, depth, channels, 8 * j + i)
  IN  128 * bit(0) + 64 * bit(1) + 32 * bit(2) + 16 * bit(3)
      + 8 * bit(4) + 4 * bit(5) + 2 * bit(6) + bit(7)

\* A reader that takes one bit of each sample whatever the depth.
StreamLength_NoDepth(pixels, depth, channels) ==
  ((Len(pixels) \div 4) * channels) \div 8

\* readNextByte throws "EOF" when it needs a sample and pixelIndex has
\* reached pixels.length: the bytes it can return are those whose last bit
\* lies in a sample of the buffer.
StreamLength(pixels, depth, channels) ==
  ((Len(pixels) \div 4) * channels * depth) \div 8

NoHeader ==
  [version |-> 0, flags |-> 0, fileName |-> <<>>, mimeType |-> <<>>,
   originalSize |-> 0, salt |-> Undefined, iterations |-> 0, iv |-> Undefined]

DecodeError(err) ==
  [ok |-> FALSE, err |-> err, header |-> NoHeader, payload |-> <<>>]

\* Strict parser over a buffered stream.  read(n) is stream.slice(ptr, ptr+n),
\* which shortens silently at the end of the stream; read(1)[0] is then
\* undefined, and an undefined ivLen turns ptr into NaN (nan = TRUE), after
\* which every slice is empty.
parseHeader(stream) ==
  LET n == Len(stream)
      read(ptr, len) == Slice(stream, ptr, ptr + len)
      flags == IF n > 9 THEN stream[10] ELSE 0
      nameLen == bytesToNum(read(10, 2))
      pMime == 12 + nameLen
      mimeLen == bytesToNum(read(pMime, 2))
      pSize == pMime + 2 + mimeLen
      encrypted == HasFlag(flags, FLAG_ENCRYPTED)
      saltLen == bytesToNum(read(pSize + 8, 2))
      pKdf == pSize + 10 + saltLen
      ivLenUndefined == encrypted /\ pKdf + 5 >= n
      ivLen == IF pKdf + 5 < n THEN stream[pKdf + 6] ELSE 0
      pCrc == IF encrypted THEN pKdf + 6 + ivLen ELSE pSize + 8
      storedCrc ==
        IF ivLenUndefined THEN <<0, 0>> ELSE bytesToCrc(read(pCrc, 4))
      headerBytes == IF ivLenUndefined THEN <<>> ELSE Slice(stream, 0, pCrc)
      header ==
        [version |-> VERSION, flags |-> flags,
         fileName |-> TextDecode(read(12, nameLen)),
         mimeType |-> TextDecode(read(pMime + 2, mimeLen)),
         originalSize |-> bytesToBigInt(read(pSize, 8)),
         salt |-> IF encrypted THEN read(pSize + 10, saltLen) ELSE Undefined,
         iterations |-> IF encrypted THEN bytesToNum(read(pKdf + 1, 4)) ELSE 0,
         iv |-> IF encrypted /\ ~ivLenUndefined
                  THEN read(pKdf + 6, ivLen) ELSE IF encrypted THEN <<>> ELSE Undefined]
  IN  IF read(0, 8) # MAGIC_BYTES_FILE THEN DecodeError("BadMagic")
      ELSE IF n < 9 \/ stream[9] # VERSION THEN DecodeError("UnsupportedVersion")
      ELSE IF Len(read(pSize, 8)) < 8 THEN DecodeError("RangeError")
      ELSE IF storedCrc # crc32(headerBytes) THEN DecodeError("HeaderCrcFailed")
      ELSE [ok |-> TRUE, err |-> "", header |-> header, payload |-> <<>>]

\* A magic check that looks at the first byte only.
MagicMatches_FirstByte(magicBytes) == magicBytes[1] = MAGIC_BYTES_FILE[1]

\* `magicBytes[i] !== MAGIC_BYTES_FILE[i]` for no i in 0..7.
MagicMatches(magicBytes) == magicBytes = MAGIC_BYTES_FILE

\* The parse of decodeFile over the bytes readNextByte returns: stream[j+1]
\* is the j-th byte, avail their number.  Every read is a readNBytes; the
\* first byte that is not in the stream throws "EOF".
decodeStream(stream, avail) ==
  LET byte(j) == IF j < avail THEN stream[j + 1] ELSE 0
      readNBytes(pos, len) == [i \in 1..len |-> byte(pos + i - 1)]
      magicBytes == readNBytes(0, 8)
      isLegacy == /\ magicBytes[1] = 83 /\ magicBytes[2] = 84 /\ magicBytes[3] = 69
                  /\ magicBytes[4] = 71 /\ magicBytes[5] # 70
      ver == byte(8)
      flags == byte(9)
      nameLen == bytesToNum(readNBytes(10, 2))
      pMime == 12 + nameLen
      mimeLen == bytesToNum(readNBytes(pMime, 2))
      pSize == pMime + 2 + mimeLen
      encrypted == HasFlag(flags, FLAG_ENCRYPTED)
      saltLen == bytesToNum(readNBytes(pSize + 8, 2))
      pKdf == pSize + 10 + saltLen
      ivLen == byte(pKdf + 5)
      pCrc == IF encrypted THEN pKdf + 6 + ivLen ELSE pSize + 8
      containerSize == bytesToNum(readNBytes(pCrc + 4, 4))
      pEnd == pCrc + 8 + containerSize
      header ==
        [version |-> ver, flags |-> flags,
         fileName |-> TextDecode(readNBytes(12, nameLen)),
         mimeType |-> TextDecode(readNBytes(pMime + 2, mimeLen)),
         originalSize |-> bytesToBigInt(readNBytes(pSize, 8)),
         salt |-> IF encrypted THEN readNBytes(pSize + 10, saltLen) ELSE Undefined,
         iterations |-> IF encrypted THEN bytesToNum(readNBytes(pKdf + 1, 4)) ELSE 0,
         iv |-> IF encrypted THEN readNBytes(pKdf + 6, ivLen) ELSE Undefined]
  IN  IF avail < 8 THEN DecodeError("EOF")
      ELSE IF isLegacy THEN DecodeError("Legacy")
      ELSE IF ~MagicMatches(magicBytes) THEN DecodeError("BadMagic")
      ELSE IF avail < 9 THEN DecodeError("EOF")
      ELSE IF ver # VERSION THEN DecodeError("UnsupportedVersion")
      ELSE IF pEnd > avail THEN DecodeError("EOF")
      ELSE [ok |-> TRUE, err |-> "", header |-> header,
            payload |-> readNBytes(pCrc + 8, containerSize)]

\* Streaming parser over the low bits of the image.
decodeFile(imageData, depth, useAlpha) ==
  decodeStream(
    [j \in 1..StreamLength(imageData.data, depth, Channels(useAlpha)) |->
       readNextByte(imageData.data, depth, Channels(useAlpha), j - 1)],
    StreamLength(imageData.data, depth, Channels(useAlpha)))

(***************************************************************************)
(* HidePage: state, derived values and inputs of the model.                *)
(***************************************************************************)
startsWith(str, prefix) ==
  Len(str) >= Len(prefix) /\ SubSeq(str, 1, Len(prefix)) = prefix

\* null for an image (HTMLImageElement, Blob) and for a File.
NoImage == [width |-> 0, height |-> 0, data |-> <<>>]
NoFile == [present |-> FALSE, name |-> <<>>, type |-> <<>>, bytes |-> <<>>]

MESSAGE_TXT == <<109, 101, 115, 115, 97, 103, 101, 46, 116, 120, 116>>
TEXT_PLAIN == <<116, 101, 120, 116, 47, 112, 108, 97, 105, 110>>
OCTET_STREAM ==
  <<97, 112, 112, 108, 105, 99, 97, 116, 105, 111, 110, 47,
    111, 99, 116, 101, 116, 45, 115, 116, 114, 101, 97, 109>>
UNKNOWN_NAME == <<117, 110, 107, 110, 111, 119, 110>>
IMAGE_PREFIX == <<105, 109, 97, 103, 101, 47>>
AUDIO_PREFIX == <<97, 117, 100, 105, 111, 47>>

\* The useState initial values of HidePage.
HidePageInit ==
  [image |-> NoImage, selectedFile |-> NoFile, textMode |-> FALSE,
   textContent |-> <<>>, password |-> <<>>, useEncryption |-> TRUE,
   useCompression |-> TRUE, lsbDepth |-> 1, useAlpha |-> FALSE,
   isProcessing |-> FALSE, error |-> "", successBlob |-> NoImage]

getPayloadDetails(p) ==
  IF p.textMode
    THEN [name |-> MESSAGE_TXT, type |-> TEXT_PLAIN,
          size |-> Len(TextEncode(p.textContent))]
  ELSE IF p.selectedFile.present
    THEN [name |-> p.selectedFile.name,
          type |-> IF p.selectedFile.type = <<>> THEN OCTET_STREAM
                   ELSE p.selectedFile.type,
          size |-> Len(p.selectedFile.bytes)]
  ELSE [name |-> UNKNOWN_NAME, type |-> OCTET_STREAM, size |-> 0]

\* capacity1..capacity4 and currentCapacity of the render.
capacityAt(p, depth) ==
  IF p.image = NoImage THEN 0
  ELSE LET payload == getPayloadDetails(p)
           headerSize == estimateHeaderSize(payload.name, payload.type, p.useEncryption)
       IN  calculateMaxPayloadCapacity(p.image.width, p.image.height, depth,
                                       headerSize, p.useEncryption, p.useAlpha)

currentCapacity(p) == capacityAt(p, p.lsbDepth)

recommendedDepth(p) ==
  LET size == getPayloadDetails(p).size
  IN  IF p.image = NoImage \/ size = 0 THEN 1
      ELSE IF size <= capacityAt(p, 1) THEN 1
      ELSE IF size <= capacityAt(p, 2) THEN 2
      ELSE IF size <= capacityAt(p, 3) THEN 3
      ELSE IF size <= capacityAt(p, 4) THEN 4
      ELSE -1

isOverCapacity(p) == getPayloadDetails(p).size > currentCapacity(p)

\* The effect that runs after a render in which the image or the payload
\* changed: it raises the depth to the recommended one.
AutoSelectDepth(p) ==
  LET size == getPayloadDetails(p).size
  IN  IF /\ recommendedDepth(p) # -1
         /\ size > currentCapacity(p)
         /\ size <= capacityAt(p, 4)
        THEN [p EXCEPT !.lsbDepth = recommendedDepth(p)]
        ELSE p

\* The `disabled` expression of the "Encrypt & Embed" button.
EmbedDisabled(p) ==
  \/ p.image = NoImage
  \/ (~p.selectedFile.present /\ p.textContent = <<>>)
  \/ p.isProcessing
  \/ isOverCapacity(p)

(***************************************************************************)
(* Inputs of the hide page.                                                *)
(***************************************************************************)
\* Two carrier images of ImgW x ImgH pixels (RGBA samples, row-major).
CarrierWhite ==
  [width |-> ImgW, height |-> ImgH,
   data |-> [i \in 1..(ImgW * ImgH * 4) |-> 255]]
CarrierPattern ==
  [width |-> ImgW, height |-> ImgH,
   data |-> [i \in 1..(ImgW * ImgH * 4) |-> (i * 7 + 3) % 256]]

\* Files the user can pick.  With ImgW x ImgH = 17 x 6 the frame of FileExact
\* is 38 bytes, the capacity at depth 1 without alpha; the frame of FileOver
\* is 39 bytes; FileRuns compresses (6 -> 4 bytes), FileMixed does not
\* (4 -> 4 bytes); FileNoType has no type and a non-ASCII name; the name of
\* FileBom starts with U+FEFF; the frame of FileLongName is 114 bytes, the
\* capacity at depth 3 without alpha, and its payload is empty, so that the
\* button is enabled at every depth.
FileExact ==
  [present |-> TRUE, name |-> <<97>>, type |-> <<97, 47, 98>>,
   bytes |-> <<222, 173, 190, 239>>]
FileOver ==
  [present |-> TRUE, name |-> <<97, 98>>,
   type |-> <<105, 109, 97, 103, 101, 47, 120>>, bytes |-> <<>>]
FileRuns ==
  [present |-> TRUE, name |-> <<114>>,
   type |-> <<105, 109, 97, 103, 101, 47, 120>>,
   bytes |-> <<7, 7, 7, 7, 7, 7>>]
FileMixed ==
  [present |-> TRUE, name |-> <<110>>,
   type |-> <<97, 117, 100, 105, 111, 47, 120>>,
   bytes |-> <<7, 7, 7, 7>>]
FileNoType ==
  [present |-> TRUE, name |-> <<233>>, type |-> <<>>, bytes |-> <<>>]
FileBom ==
  [present |-> TRUE, name |-> <<BOM_CHAR, 110>>, type |-> <<97, 47, 98>>,
   bytes |-> <<1, 2>>]
FileLongName ==
  [present |-> TRUE, name |-> [i \in 1..60 |-> 97], type |-> <<>>, bytes |-> <<>>]
HideFiles ==
  {FileExact, FileOver, FileRuns, FileMixed, FileNoType, FileBom, FileLongName}

TextHi == <<104, 105>>
PasswordPw == <<112, 119>>
PasswordPx == <<112, 120>>

\* What the user puts into the form before pressing the button.
HideForm(carrier, file, text, pw, enc, comp, depth, alpha) ==
  [carrier |-> carrier, selectedFile |-> file, textMode |-> (text # <<>>),
   textContent |-> text, password |-> pw, useEncryption |-> enc,
   useCompression |-> comp, lsbDepth |-> depth, useAlpha |-> alpha]

PlainForms ==
  {HideForm(CarrierPattern, f, <<>>, <<>>, FALSE, FALSE, d, a) :
     f \in HideFiles, d \in 1..4, a \in BOOLEAN}
  \cup {HideForm(CarrierWhite, NoFile, TextHi, <<>>, FALSE, FALSE, d, a) :
     d \in 1..4, a \in BOOLEAN}
CompressForms ==
  {HideForm(CarrierWhite, f, <<>>, pw, pw # <<>>, TRUE, 1, a) :
     f \in {FileRuns, FileMixed}, pw \in {<<>>, PasswordPw}, a \in BOOLEAN}
EncryptForms ==
  {HideForm(CarrierWhite, f, <<>>, pw, TRUE, FALSE, 1, FALSE) :
     f \in {FileExact, FileBom}, pw \in {<<>>, PasswordPw}}
  \cup {HideForm(CarrierPattern, FileExact, TextHi, PasswordPw, TRUE, TRUE, 2, TRUE)}

\* Browsers of the two sides: does the sender's window have
\* CompressionStream, does the recipient's have DecompressionStream, does
\* the sender's Intl have Segmenter.
Environments ==
  {[CompressionStream |-> TRUE, DecompressionStream |-> TRUE, Segmenter |-> TRUE],
   [CompressionStream |-> FALSE, DecompressionStream |-> FALSE, Segmenter |-> TRUE],
   [CompressionStream |-> TRUE, DecompressionStream |-> FALSE, Segmenter |-> TRUE],
   [CompressionStream |-> TRUE, DecompressionStream |-> TRUE, Segmenter |-> FALSE]}
AllFeatures ==
  [CompressionStream |-> TRUE, DecompressionStream |-> TRUE, Segmenter |-> TRUE]

\* The forms explored in an environment: all of them where every feature is
\* present, those that compress where a stream class is missing.
HideForms(e) ==
  IF e = AllFeatures THEN PlainForms \cup CompressForms \cup EncryptForms
  ELSE IF e.Segmenter THEN CompressForms
  ELSE {}

(***************************************************************************)
(* State.                                                                  *)
(***************************************************************************)
VARIABLES
  env,          \* features of the two browsers (see Environments)
  route,        \* App's route on each side: [sender, recipient]
  hidePage,     \* useState values of HidePage (sender)
  hideTrace,    \* history: what the last handleEmbed computed
  sentImage,    \* the image file the recipient received, or NoImage
  flippedBit,   \* history: the bit of the hidden stream changed in transit, or -1
  revealPage,   \* useState values of RevealPage (recipient)
  revealTrace,  \* history: what the last handleReveal computed
  emojiHidePage,    \* useState values of EmojiHidePage (sender)
  emojiTrace,       \* history: what the last handleGenerate computed
  sentText,         \* the text the recipient received, or Undefined
  textEdit,         \* history: how the text was changed in transit, or "none"
  emojiRevealPage,  \* useState values of EmojiRevealPage (recipient)
  emojiRevealTrace, \* history: what the last emoji handleReveal computed
  unit              \* the last direct call of an exported function, with its result

recipientVars == <<sentImage, flippedBit, revealPage, revealTrace>>
imageVars == <<hidePage, hideTrace, sentImage, flippedBit, revealPage, revealTrace>>
emojiRecipientVars == <<sentText, textEdit, emojiRevealPage, emojiRevealTrace>>
emojiVars ==
  <<emojiHidePage, emojiTrace, sentText, textEdit, emojiRevealPage, emojiRevealTrace>>

\* No direct call has been made.
NoCall == [op |-> "none"]

\* An absent result of handleEmbed's computation (see EmbedSteps).
NoEmbedResult ==
  [rawData |-> <<>>, fileName |-> <<>>, mimeType |-> <<>>, flags |-> 0,
   compressed |-> <<>>, bodyInput |-> <<>>, headerLength |-> 0,
   finalBlob |-> <<>>, ok |-> FALSE, calls |-> <<>>,
   error |-> "", imageData |-> NoImage]

\* page, result: the form the last run started from and what it computed;
\* prevPage, prevResult: the same for the run before it.
NoHideTrace ==
  [runs |-> 0, page |-> HidePageInit, result |-> NoEmbedResult,
   prevPage |-> HidePageInit, prevResult |-> NoEmbedResult]

(***************************************************************************)
(* HidePage: handlers.                                                     *)
(***************************************************************************)
\* The bound on handleEmbed runs in one session.
MaxRuns == 2

\* Home page -> "Hide" (onNavigate(AppRoute.HIDE)) mounts a fresh HidePage.
NavigateHide ==
  /\ route.sender = "home"
  /\ route' = [route EXCEPT !.sender = "hide"]
  /\ hidePage' = HidePageInit
  /\ UNCHANGED <<unit, env, emojiVars, hideTrace, recipientVars>>

\* The user fills the form: handleImageUpload (setImage, setSuccessBlob(null),
\* setError(null)), handleFileUpload or the text area, the password field and
\* the option switches; then the depth effect runs.
FormPage(f) ==
  AutoSelectDepth(
    [HidePageInit EXCEPT
       !.image = f.carrier, !.selectedFile = f.selectedFile,
       !.textMode = f.textMode, !.textContent = f.textContent,
       !.password = f.password, !.useEncryption = f.useEncryption,
       !.useCompression = f.useCompression, !.lsbDepth = f.lsbDepth,
       !.useAlpha = f.useAlpha])

HideFillForm(f) ==
  /\ route.sender = "hide"
  /\ hidePage = HidePageInit
  /\ hidePage' = FormPage(f)
  /\ UNCHANGED <<unit, env, emojiVars, route, hideTrace, recipientVars>>

\* handleEmbed up to the setTimeout.
HideClick ==
  /\ route.sender = "hide"
  /\ ~EmbedDisabled(hidePage)
  /\ hideTrace.runs < MaxRuns
  /\ hidePage' =
       IF hidePage.useEncryption /\ hidePage.password = <<>>
         THEN [hidePage EXCEPT !.error = "Password is required for encryption."]
         ELSE [hidePage EXCEPT !.isProcessing = TRUE, !.error = "",
                               !.successBlob = NoImage]
  /\ UNCHANGED <<unit, env, emojiVars, route, hideTrace, recipientVars>>

\* An adoption test that also keeps a compressed form of equal length.
CompressionHelped_OrEqual(rawData, compressed) == Len(compressed) <= Len(rawData)

\* `processedData.length < rawData.length`: the compressed form is kept.
CompressionHelped(rawData, compressed) == Len(compressed) < Len(rawData)

\* An encryption of the bytes read from the file, whatever step 2 made of them.
EncryptInput_Raw(rawData, processedData) == rawData

\* The argument of encryptData: `processedData` as step 2 (Compress) left it.
EncryptInput(rawData, processedData) == processedData

\* What the timer callback of handleEmbed computes from the form p.
EmbedSteps(p, seed, hasCompressionStream) ==
  LET rawData == IF p.textMode THEN TextEncode(p.textContent)
                 ELSE p.selectedFile.bytes
      fileName == IF p.textMode THEN MESSAGE_TXT ELSE p.selectedFile.name
      mimeType == IF p.textMode THEN TEXT_PLAIN
                  ELSE IF p.selectedFile.type = <<>> THEN OCTET_STREAM
                  ELSE p.selectedFile.type
      originalSize == Len(rawData)
      flags0 == (IF startsWith(mimeType, IMAGE_PREFIX) THEN FLAG_IS_IMAGE ELSE 0)
                + (IF startsWith(mimeType, AUDIO_PREFIX) THEN FLAG_IS_AUDIO ELSE 0)
      compressed == compressData(rawData, hasCompressionStream)
      adopted == p.useCompression /\ CompressionHelped(rawData, compressed)
      flags1 == IF adopted THEN SetFlag(flags0, FLAG_COMPRESSED) ELSE flags0
      processed1 == IF adopted THEN compressed ELSE rawData
      salt == IF p.useEncryption THEN generateSalt(seed) ELSE Undefined
      iv == IF p.useEncryption THEN generateIV(seed, 12) ELSE Undefined
      key == deriveKey(p.password, salt, ITERATIONS)
      processedData ==
        IF p.useEncryption
          THEN encryptData(EncryptInput(rawData, processed1), key, iv)
          ELSE processed1
      flags == IF p.useEncryption THEN SetFlag(flags1, FLAG_ENCRYPTED) ELSE flags1
      header == buildStegFileHeader(fileName, mimeType, originalSize, flags, salt, iv, 0)
      sizeBytes == numToBytes(Len(processedData), 4)
      finalBlob == header.bytes \o sizeBytes \o processedData
      embedded == embedData(p.image, finalBlob, p.lsbDepth, p.useAlpha)
  IN  [rawData |-> rawData, fileName |-> fileName, mimeType |-> mimeType,
       flags |-> flags, compressed |-> IF p.useCompression THEN compressed ELSE <<>>,
       bodyInput |-> processed1, headerLength |-> Len(header.bytes),
       finalBlob |-> finalBlob, ok |-> header.ok /\ embedded.ok,
       \* history: the calls made by the callback, in order
       calls |-> (IF p.useCompression THEN <<"compressData">> ELSE <<>>)
                 \o (IF p.useEncryption THEN <<"deriveKey", "encryptData">> ELSE <<>>)
                 \o <<"buildStegFileHeader">>
                 \o (IF header.ok THEN <<"concatBytes", "embedData">> ELSE <<>>),
       error |-> IF ~header.ok THEN "Encrypted flag set but missing Salt or IV"
                 \* the message goes on with the two byte counts
                 ELSE IF ~embedded.ok THEN "Data exceeds capacity."
                 ELSE "",
       imageData |-> embedded.imageData]

\* The state changes of the timer callback of handleEmbed and of the toBlob
\* callback, r being what the timer callback computed.
HideFinish(r) ==
  /\ hidePage' =
        IF r.ok THEN [hidePage EXCEPT !.successBlob = r.imageData,
                                      !.isProcessing = FALSE]
        ELSE [hidePage EXCEPT !.error = r.error, !.isProcessing = FALSE]
  /\ hideTrace' =
        [runs |-> hideTrace.runs + 1, page |-> hidePage, result |-> r,
         prevPage |-> hideTrace.page, prevResult |-> hideTrace.result]

\* The timer callback of handleEmbed, with the toBlob callback.
HideRun(seed) ==
  /\ route.sender = "hide"
  /\ hidePage.isProcessing
  /\ HideFinish(EmbedSteps(hidePage, seed, env.CompressionStream))
  /\ UNCHANGED <<unit, env, emojiVars, route, recipientVars>>

\* handleImageUpload with the image the page has just produced: the user
\* takes the output as the next carrier.
HideReuseOutput ==
  /\ route.sender = "hide"
  /\ ~hidePage.isProcessing
  /\ hidePage.successBlob # NoImage
  /\ hideTrace.runs < MaxRuns
  /\ hidePage' = AutoSelectDepth(
       [hidePage EXCEPT !.image = hidePage.successBlob,
                        !.successBlob = NoImage, !.error = ""])
  /\ UNCHANGED <<unit, env, emojiVars, route, hideTrace, recipientVars>>

(***************************************************************************)
(* Transfer of the image.  The sender saves the output (downloadImage),    *)
(* hands the file over and leaves the page (onNavigate(AppRoute.ABOUT)),   *)
(* which unmounts HidePage.                                                *)
(***************************************************************************)
LeaveHidePage ==
  /\ route' = [route EXCEPT !.sender = "about"]
  /\ hidePage' = HidePageInit

\* The file reaches the recipient as it was saved.  The output handed over
\* is the one of the first run.
SendImage ==
  /\ route.sender = "hide"
  /\ ~hidePage.isProcessing
  /\ hidePage.successBlob # NoImage
  /\ hideTrace.runs = 1
  /\ sentImage' = hidePage.successBlob
  /\ LeaveHidePage
  /\ UNCHANGED <<unit, env, emojiVars, hideTrace, flippedBit, revealPage, revealTrace>>

\* The recipient gets an image nothing was hidden in.
SendCarrier ==
  /\ route.sender = "hide"
  /\ hidePage.image # NoImage
  /\ hideTrace.runs = 0
  /\ ~hidePage.isProcessing
  /\ sentImage' = hidePage.image
  /\ LeaveHidePage
  /\ UNCHANGED <<unit, env, emojiVars, hideTrace, flippedBit, revealPage, revealTrace>>

\* The image with bit k of the hidden stream inverted: bit k lies in the
\* sample that embedData visited as number k div depth.
FlipStreamBit(imageData, depth, useAlpha, k) ==
  LET channels == Channels(useAlpha)
      n == k \div depth
      idx == 4 * (n \div channels) + (n % channels) + 1
      weight == Pow2(depth - 1 - (k % depth))
      val == imageData.data[idx]
      flipped == IF (val \div weight) % 2 = 1 THEN val - weight ELSE val + weight
  IN  [imageData EXCEPT !.data[idx] = flipped]

\* The output that is also sent with one bit changed: the shortest frame
\* (FileExact, no encryption, depth 1, RGB).
CanTamper(p) ==
  /\ p.selectedFile = FileExact
  /\ ~p.textMode
  /\ ~p.useCompression
  /\ ~p.useEncryption
  /\ ~p.useAlpha
  /\ p.lsbDepth = 1

\* The file is changed in one bit of the hidden stream on its way.
SendImageFlipped(k) ==
  /\ route.sender = "hide"
  /\ ~hidePage.isProcessing
  /\ hidePage.successBlob # NoImage
  /\ CanTamper(hidePage)
  /\ hideTrace.runs = 1
  /\ k \in 0..(8 * Len(hideTrace.result.finalBlob) - 1)
  /\ sentImage' = FlipStreamBit(hidePage.successBlob, hidePage.lsbDepth,
                                hidePage.useAlpha, k)
  /\ flippedBit' = k
  /\ LeaveHidePage
  /\ UNCHANGED <<unit, env, emojiVars, hideTrace, revealPage, revealTrace>>

\* The output of an encrypted run that is also sent with one bit of its
\* header changed: FileExact under a password, no compression.
CanTamperEncrypted(p) ==
  /\ p.selectedFile = FileExact
  /\ ~p.textMode
  /\ ~p.useCompression
  /\ p.useEncryption

\* The file of an encrypted run is changed in one bit of the header (magic
\* through header CRC) on its way.
SendEncryptedImageFlipped(k) ==
  /\ route.sender = "hide"
  /\ ~hidePage.isProcessing
  /\ hidePage.successBlob # NoImage
  /\ CanTamperEncrypted(hidePage)
  /\ hideTrace.runs = 1
  /\ k \in 0..(8 * hideTrace.result.headerLength - 1)
  /\ sentImage' = FlipStreamBit(hidePage.successBlob, hidePage.lsbDepth,
                                hidePage.useAlpha, k)
  /\ flippedBit' = k
  /\ LeaveHidePage
  /\ UNCHANGED <<unit, env, emojiVars, hideTrace, revealPage, revealTrace>>

\* The frame with another kdf id: the byte after the salt is replaced and
\* the header CRC is that of the new header, as a writer that uses another
\* key derivation would produce it.  1 + 4 + 1 + IV_LENGTH bytes lie between
\* the kdf byte and the CRC.
WithKdf(fullDataBlob, headerLength, kdf) ==
  LET kdfAt == headerLength - 4 - IV_LENGTH - 1 - 4
      partialHeader == [i \in 1..(headerLength - 4) |->
                          IF i = kdfAt THEN kdf ELSE fullDataBlob[i]]
  IN  partialHeader \o crcToBytes(crc32(partialHeader))
      \o SubSeq(fullDataBlob, headerLength + 1, Len(fullDataBlob))

\* The recipient gets an image made like the saved one by a writer whose
\* kdf id is not 0x01 (FileExact under a password, no compression).
SendImageOtherKdf(kdf) ==
  /\ route.sender = "hide"
  /\ ~hidePage.isProcessing
  /\ hidePage.successBlob # NoImage
  /\ hideTrace.runs = 1
  /\ hidePage.selectedFile = FileExact
  /\ ~hidePage.textMode
  /\ hidePage.useEncryption
  /\ ~hidePage.useCompression
  /\ sentImage' = embedData(hideTrace.page.image,
                            WithKdf(hideTrace.result.finalBlob,
                                    hideTrace.result.headerLength, kdf),
                            hidePage.lsbDepth, hidePage.useAlpha).imageData
  /\ LeaveHidePage
  /\ UNCHANGED <<unit, env, emojiVars, hideTrace, flippedBit, revealPage, revealTrace>>

(***************************************************************************)
(* RevealPage.                                                             *)
(***************************************************************************)
NoDecodedFile ==
  [present |-> FALSE, fileName |-> <<>>, mimeType |-> <<>>, data |-> <<>>,
   originalSize |-> 0, isEncrypted |-> FALSE, isCompressed |-> FALSE]

\* The useState initial values of RevealPage.
RevealPageInit ==
  [image |-> NoImage, password |-> <<>>, isProcessing |-> FALSE,
   error |-> "", decodedFile |-> NoDecodedFile, debugInfo |-> ""]

NoRevealTrace ==
  [done |-> FALSE, password |-> <<>>, detected |-> FALSE, depth |-> 0,
   useAlpha |-> FALSE, header |-> NoHeader, outcome |-> "", trials |-> <<>>,
   calls |-> <<>>]

\* The configuration of the trial-th call of decodeFile (from 1): the outer
\* loop `for (let d = 1; d <= 4; d++)`, the inner one over [false, true].
TrialDepth(trial) == ((trial - 1) \div 2) + 1

\* An inner loop over [true, false].
TrialAlpha_First(trial) == (trial % 2 = 1)

TrialAlpha(trial) == (trial % 2 = 0)

\* The auto-detection loop: every throw of decodeFile is swallowed by the
\* empty catch and the next configuration is tried.  tried is the history
\* of the calls made so far: configuration and what was thrown ("" if
\* nothing).
RECURSIVE AutoDetect(_, _, _)
AutoDetect(imageData, trial, tried) ==
  IF trial > 8 THEN [found |-> FALSE, depth |-> 0, useAlpha |-> FALSE,
                     rawResult |-> DecodeError(""), trials |-> tried]
  ELSE LET d == TrialDepth(trial)
           useAlpha == TrialAlpha(trial)
           rawResult == decodeFile(imageData, d, useAlpha)
       IN  IF rawResult.ok
             THEN [found |-> TRUE, depth |-> d, useAlpha |-> useAlpha,
                   rawResult |-> rawResult,
                   trials |-> Append(tried, [depth |-> d, useAlpha |-> useAlpha,
                                             err |-> ""])]
             ELSE AutoDetect(imageData, trial + 1,
                             Append(tried, [depth |-> d, useAlpha |-> useAlpha,
                                            err |-> rawResult.err]))

\* A prompt that is never given: an empty password goes on to deriveKey.
PasswordMissing_Never(password) == FALSE

\* `!password`: no password was typed.
PasswordMissing(password) == password = <<>>

\* What the timer callback of handleReveal does with the result det of the
\* auto-detection.  outcome "decoded": setDecodedFile; "password": the early
\* return with setDebugInfo; anything else is the message given to setError.
RevealDetected(det, password, hasDecompressionStream) ==
  LET header == det.rawResult.header
      payload == det.rawResult.payload
      encrypted == HasFlag(header.flags, FLAG_ENCRYPTED)
      compressed == HasFlag(header.flags, FLAG_COMPRESSED)
      key == deriveKey(password, header.salt, header.iterations)
      opened == IF encrypted THEN decryptData(payload, key, header.iv)
                ELSE [ok |-> TRUE, data |-> payload]
      inflated == IF compressed
                    THEN decompressData(opened.data, hasDecompressionStream)
                    ELSE [ok |-> TRUE, data |-> opened.data]
      outcome ==
        IF ~det.found
          THEN "No recognized steganography header found. Try checking if the image has been compressed or altered."
        ELSE IF encrypted /\ PasswordMissing(password) THEN "password"
        ELSE IF encrypted /\ header.iterations = 0 THEN "Extraction failed."
        ELSE IF ~opened.ok THEN "Decryption failed. Invalid password or corrupted data."
        ELSE IF ~inflated.ok THEN "Extraction failed."
        ELSE "decoded"
      \* history: the calls of crypto.ts made after the detection, in order
      cryptoCalls ==
        IF ~det.found \/ ~encrypted \/ PasswordMissing(password) THEN <<>>
        ELSE IF header.iterations = 0 THEN <<"deriveKey">>
        ELSE <<"deriveKey", "decryptData">>
      inflateCalls ==
        IF compressed /\ outcome \in {"decoded", "Extraction failed."}
             /\ ~(encrypted /\ header.iterations = 0)
          THEN <<"decompressData">> ELSE <<>>
  IN  [outcome |-> outcome, detected |-> det.found, depth |-> det.depth,
       useAlpha |-> det.useAlpha, header |-> header, trials |-> det.trials,
       calls |-> cryptoCalls \o inflateCalls,
       decodedFile |->
         IF outcome = "decoded"
           THEN [present |-> TRUE, fileName |-> header.fileName,
                 mimeType |-> header.mimeType, data |-> inflated.data,
                 originalSize |-> header.originalSize,
                 isEncrypted |-> encrypted, isCompressed |-> compressed]
           ELSE NoDecodedFile]

\* What the timer callback of handleReveal computes.
RevealSteps(imageData, password, hasDecompressionStream) ==
  RevealDetected(AutoDetect(imageData, 1, <<>>), password, hasDecompressionStream)

\* Home page -> "Reveal" mounts a fresh RevealPage.
NavigateReveal ==
  /\ route.recipient = "home"
  /\ sentImage # NoImage
  /\ route' = [route EXCEPT !.recipient = "reveal"]
  /\ revealPage' = RevealPageInit
  /\ UNCHANGED <<unit, env, emojiVars, hidePage, hideTrace, sentImage, flippedBit, revealTrace>>

\* handleImageUpload with the received file.
RevealImageUpload ==
  /\ route.recipient = "reveal"
  /\ revealPage.image = NoImage
  /\ revealPage' = [revealPage EXCEPT !.image = sentImage,
                      !.decodedFile = NoDecodedFile, !.error = "", !.debugInfo = ""]
  /\ UNCHANGED <<unit, env, emojiVars, route, hidePage, hideTrace, sentImage, flippedBit, revealTrace>>

\* The password field (setPassword): the recipient types a password when
\* the page has asked for one.
RevealSetPassword(pw) ==
  /\ route.recipient = "reveal"
  /\ revealPage.debugInfo # ""
  /\ ~revealPage.isProcessing
  /\ revealPage.password = <<>>
  /\ pw # <<>>
  /\ revealPage' = [revealPage EXCEPT !.password = pw]
  /\ UNCHANGED <<unit, env, emojiVars, route, hidePage, hideTrace, sentImage, flippedBit, revealTrace>>

\* handleReveal up to the setTimeout; the button is disabled while
\* !image || isProcessing.
RevealClick ==
  /\ route.recipient = "reveal"
  /\ revealPage.image # NoImage
  /\ ~revealPage.isProcessing
  /\ revealPage' = [revealPage EXCEPT !.isProcessing = TRUE, !.error = "",
                      !.decodedFile = NoDecodedFile, !.debugInfo = ""]
  /\ UNCHANGED <<unit, env, emojiVars, route, hidePage, hideTrace, sentImage, flippedBit, revealTrace>>

\* A callback without the `finally`: only the two returns that do not throw
\* reset isProcessing.
ProcessingAfter_NoFinally(outcome) == outcome \notin {"decoded", "password"}

\* isProcessing when the timer callback has ended: `finally` runs
\* setIsProcessing(false) after the return of the password prompt, after
\* setDecodedFile and after the catch.
ProcessingAfter(outcome) == FALSE

\* The state changes of the timer callback of handleReveal, r being what it
\* computed.
RevealFinish(r) ==
  /\ revealPage' =
        [revealPage EXCEPT
           !.isProcessing = ProcessingAfter(r.outcome),
           !.decodedFile = r.decodedFile,
           !.debugInfo = IF r.outcome = "password"
                           \* the message also names the configuration found
                           THEN "Encrypted payload found. Please enter password."
                           ELSE "",
           !.error = IF r.outcome \in {"decoded", "password"} THEN ""
                     ELSE r.outcome]
  /\ revealTrace' =
        [done |-> TRUE, password |-> revealPage.password,
         detected |-> r.detected, depth |-> r.depth,
         useAlpha |-> r.useAlpha, header |-> r.header,
         outcome |-> r.outcome, trials |-> r.trials, calls |-> r.calls]

\* The timer callback of handleReveal.
RevealRun ==
  /\ route.recipient = "reveal"
  /\ revealPage.isProcessing
  /\ RevealFinish(RevealSteps(revealPage.image, revealPage.password,
                              env.DecompressionStream))
  /\ UNCHANGED <<unit, env, emojiVars, route, hidePage, hideTrace, sentImage, flippedBit>>

(***************************************************************************)
(* emojiStego.ts                                                           *)
(***************************************************************************)
BIT_0 == 8203
BIT_1 == 8204

\* EMOJI_SETS: each emoji is a string, here the sequence of its code points.
EMOJI_FACES ==
  << <<128512>>, <<128515>>, <<128516>>, <<128513>>, <<128518>>, <<128517>>,
     <<128514>>, <<129315>>, <<128522>>, <<128519>>, <<128578>>, <<128579>>,
     <<128521>>, <<128524>>, <<128525>>, <<129392>>, <<128536>>, <<128535>> >>
EMOJI_ANIMALS ==
  << <<128054>>, <<128049>>, <<128045>>, <<128057>>, <<128048>>, <<129418>>,
     <<128059>>, <<128060>>, <<128040>>, <<128047>>, <<129409>>, <<128046>>,
     <<128055>>, <<128056>>, <<128053>>, <<129412>> >>
EMOJI_HEARTS ==
  << <<10084, 65039>>, <<129505>>, <<128155>>, <<128154>>, <<128153>>,
     <<128156>>, <<128420>>, <<129293>>, <<129294>>, <<128148>>,
     <<10083, 65039>>, <<128149>>, <<128158>>, <<128147>> >>
EMOJI_SETS(theme) ==
  CASE theme = "faces" -> EMOJI_FACES
    [] theme = "animals" -> EMOJI_ANIMALS
    [] theme = "hearts" -> EMOJI_HEARTS
    [] OTHER -> EMOJI_FACES \o EMOJI_ANIMALS \o EMOJI_HEARTS

\* Math.floor(Math.random() * n) for the i-th draw of a run: some index
\* 0..n-1 that depends on the run (seed) and on i.
RandomIndex(seed, i, n) == (seed * 7 + i * 5) % n

generateCoverEmojis(count, theme, seed) ==
  LET set == EMOJI_SETS(theme)
  IN  [i \in 1..count |-> set[RandomIndex(seed, i, Len(set)) + 1]]

\* The framed message: header, CRC of the payload, payload.
fullMessageOf(payload, flags, salt, iv) ==
  MAGIC_BYTES_EMOJI \o <<VERSION>> \o <<flags % 256>>
  \o <<Len(salt) % 256>> \o salt \o <<Len(iv) % 256>> \o iv
  \o numToBytes(Len(payload), 4) \o crcToBytes(crc32(payload)) \o payload

\* An encoder that leaves out the lowest bit of every byte.
invisibleString_SevenBits(fullMessage) ==
  [k \in 1..(7 * Len(fullMessage)) |->
     IF (fullMessage[((k - 1) \div 7) + 1] \div Pow2(7 - ((k - 1) % 7))) % 2 = 0
       THEN BIT_0 ELSE BIT_1]

\* One invisible character per bit, most significant bit of each byte first.
invisibleString(fullMessage) ==
  [k \in 1..(8 * Len(fullMessage)) |->
     IF (fullMessage[((k - 1) \div 8) + 1] \div Pow2(7 - ((k - 1) % 8))) % 2 = 0
       THEN BIT_0 ELSE BIT_1]

\* The cover emojis of a run of encodeEmojiMessage.
coverEmojisOf(emojiCount, theme, customEmojiSet, seed) ==
  IF theme = "custom" /\ Len(customEmojiSet) > 0
    THEN [i \in 1..emojiCount |->
            customEmojiSet[RandomIndex(seed, i, Len(customEmojiSet)) + 1]]
    ELSE generateCoverEmojis(emojiCount, IF theme = "custom" THEN "mixed" ELSE theme, seed)

\* result after the first i rounds of the interleaving loop.
RECURSIVE Interleave(_, _, _, _)
Interleave(coverEmojis, invisible, charsPerEmoji, i) ==
  IF i = 0 THEN <<>>
  ELSE LET charIdx == Min((i - 1) * charsPerEmoji, Len(invisible))
           end == Min(charIdx + charsPerEmoji, Len(invisible))
       IN  Interleave(coverEmojis, invisible, charsPerEmoji, i - 1)
           \o coverEmojis[i] \o SubSeq(invisible, charIdx + 1, end)

encodeEmojiMessage(payload, flags, salt, iv, theme, customEmojiSet, seed) ==
  LET fullMessage == fullMessageOf(payload, flags, salt, iv)
      invisible == invisibleString(fullMessage)
      emojiCount == Max(12, CeilDiv(Len(fullMessage), 16))
      coverEmojis == coverEmojisOf(emojiCount, theme, customEmojiSet, seed)
      totalBits == Len(fullMessage) * 8
      charsPerEmoji == CeilDiv(totalBits, emojiCount)
      charIdx == Min(Len(coverEmojis) * charsPerEmoji, Len(invisible))
  IN  Interleave(coverEmojis, invisible, charsPerEmoji, Len(coverEmojis))
      \o SubSeq(invisible, charIdx + 1, Len(invisible))

\* A strict reader: a bit count that is not a multiple of 8 gives no bits.
bitString_Strict(text) ==
  LET bits == SelectSeq(text, LAMBDA char : char = BIT_0 \/ char = BIT_1)
  IN  IF Len(bits) % 8 = 0 THEN bits ELSE <<>>

\* A filter that also takes the letter x for a bit.
bitString_WithX(text) ==
  SelectSeq(text, LAMBDA char : char = BIT_0 \/ char = BIT_1 \/ char = 120)

\* The characters of the text that carry a bit, in order.
bitString(text) == SelectSeq(text, LAMBDA char : char = BIT_0 \/ char = BIT_1)

EmojiError(err) ==
  [ok |-> FALSE, err |-> err, isEncrypted |-> FALSE, salt |-> <<>>,
   iv |-> <<>>, payload |-> <<>>]

decodeEmojiMessage(text) ==
  LET bits == bitString(text)
      n == Len(bits) \div 8
      byteArray == [i \in 1..n |->
                      LET b(j) == IF bits[8 * (i - 1) + j] = BIT_1 THEN 1 ELSE 0
                      IN  128 * b(1) + 64 * b(2) + 32 * b(3) + 16 * b(4)
                          + 8 * b(5) + 4 * b(6) + 2 * b(7) + b(8)]
      read(ptr, len) == Slice(byteArray, ptr, ptr + len)
      at(ptr) == IF ptr < n THEN byteArray[ptr + 1] ELSE 0
      saltLen == at(6)
      pIv == 7 + saltLen
      ivLen == at(pIv)
      pLen == pIv + 1 + ivLen
      payloadLen == bytesToNum(read(pLen, 4))
      pPayload == pLen + 8
      payload == read(pPayload, payloadLen)
  IN  IF Len(bits) = 0 THEN EmojiError("No hidden emoji data found.")
      ELSE IF n < 4 THEN EmojiError("Unexpected end of data")
      ELSE IF read(0, 4) # MAGIC_BYTES_EMOJI
        THEN EmojiError("Invalid emoji steganography header.")
      ELSE IF n < 5 THEN EmojiError("Unexpected end of data")
      ELSE IF at(4) # VERSION THEN EmojiError("Unsupported version")
      ELSE IF n < 7 \/ pIv > n \/ pIv + 1 > n \/ pLen > n \/ pLen + 8 > n
              \/ pPayload + payloadLen > n
        THEN EmojiError("Unexpected end of data")
      ELSE IF crc32(payload) # bytesToCrc(read(pLen + 4, 4))
        THEN EmojiError("Data corruption detected (CRC mismatch).")
      ELSE [ok |-> TRUE, err |-> "", isEncrypted |-> (at(5) % 2 = 1),
            salt |-> read(7, saltLen), iv |-> read(pIv + 1, ivLen),
            payload |-> payload]

(***************************************************************************)
(* EmojiHidePage.                                                          *)
(***************************************************************************)
\* The initial customEmojiInput, as the source file spells it.
CUSTOM_DEFAULT == <<240, 376, 8216, 187, 240, 376, 8221, 165>>

\* The useState initial values of EmojiHidePage; result = Undefined is null.
EmojiHidePageInit ==
  [message |-> <<>>, password |-> <<>>, useEncryption |-> TRUE,
   theme |-> "mixed", customEmojiInput |-> CUSTOM_DEFAULT,
   isProcessing |-> FALSE, result |-> Undefined, error |-> ""]

\* Code points that extend the grapheme before them (ZWNJ, ZWJ, VS16).
GraphemeExtend == {8204, 8205, 65039}

\* The graphemes of the custom input: Intl.Segmenter where it exists (a code
\* point of GraphemeExtend stays with the one before it), else Array.from
\* (one string per code point).
RECURSIVE segment(_, _, _)
segment(str, i, hasSegmenter) ==
  IF i = 0 THEN <<>>
  ELSE LET before == segment(str, i - 1, hasSegmenter)
       IN  IF hasSegmenter /\ i > 1 /\ str[i] \in GraphemeExtend
             THEN [before EXCEPT ![Len(before)] = @ \o <<str[i]>>]
             ELSE Append(before, <<str[i]>>)

NoEmojiResult ==
  [ok |-> FALSE, error |-> "", payload |-> <<>>, salt |-> <<>>, iv |-> <<>>,
   flags |-> 0, customEmojis |-> <<>>, stegoText |-> Undefined]

\* What the timer callback of handleGenerate computes from the form p.
GenerateSteps(p, seed, hasSegmenter) ==
  LET rawMessage == TextEncode(p.message)
      salt == IF p.useEncryption THEN generateSalt(seed) ELSE <<>>
      iv == IF p.useEncryption THEN generateIV(seed, 12) ELSE <<>>
      key == deriveKey(p.password, salt, ITERATIONS)
      payload == IF p.useEncryption THEN encryptData(rawMessage, key, iv)
                 ELSE rawMessage
      flags == IF p.useEncryption THEN 1 ELSE 0
      customEmojis == IF p.theme = "custom"
                        THEN segment(p.customEmojiInput, Len(p.customEmojiInput),
                                     hasSegmenter)
                        ELSE <<>>
  IN  IF p.theme = "custom" /\ p.customEmojiInput = <<>>
        THEN [NoEmojiResult EXCEPT
                !.error = "Please enter at least one emoji for the custom theme."]
        ELSE [ok |-> TRUE, error |-> "", payload |-> payload, salt |-> salt,
              iv |-> iv, flags |-> flags, customEmojis |-> customEmojis,
              stegoText |-> encodeEmojiMessage(payload, flags, salt, iv, p.theme,
                                               customEmojis, seed)]

\* Inputs of the emoji hide page.
MessageBom == <<BOM_CHAR, 104>>
CustomZwnj == <<128123, 8204, 128293>>
CustomZwsp == <<128123, 8203>>

EmojiForm(message, pw, theme, custom) ==
  [message |-> message, password |-> pw, useEncryption |-> (pw # <<>>),
   theme |-> theme, customEmojiInput |-> custom]

BuiltinForms ==
  {EmojiForm(m, pw, t, CUSTOM_DEFAULT) :
     m \in {TextHi, MessageBom}, pw \in {<<>>, PasswordPw},
     t \in {"mixed", "faces", "animals", "hearts"}}
CustomForms ==
  {EmojiForm(TextHi, pw, "custom", c) :
     pw \in {<<>>, PasswordPw}, c \in {CUSTOM_DEFAULT, <<>>, CustomZwnj, CustomZwsp}}

\* The forms explored in an environment (see HideForms).
EmojiForms(e) ==
  IF e = AllFeatures THEN BuiltinForms \cup CustomForms
  ELSE IF ~e.Segmenter THEN CustomForms
  ELSE {}

\* Home page -> "Emoji Hide" mounts a fresh EmojiHidePage.
NavigateEmojiHide ==
  /\ route.sender = "home"
  /\ route' = [route EXCEPT !.sender = "emoji_hide"]
  /\ emojiHidePage' = EmojiHidePageInit
  /\ UNCHANGED <<unit, env, imageVars, emojiTrace, emojiRecipientVars>>

\* The user fills the form: message, password, encryption switch, theme and
\* custom emoji field.
EmojiFillForm(f) ==
  /\ route.sender = "emoji_hide"
  /\ emojiHidePage = EmojiHidePageInit
  /\ emojiHidePage' =
       [EmojiHidePageInit EXCEPT
          !.message = f.message, !.password = f.password,
          !.useEncryption = f.useEncryption, !.theme = f.theme,
          !.customEmojiInput = f.customEmojiInput]
  /\ UNCHANGED <<unit, env, route, imageVars, emojiTrace, emojiRecipientVars>>

\* The `disabled` expression of the "Generate" button.
GenerateDisabled(p) ==
  \/ p.message = <<>>
  \/ (p.useEncryption /\ p.password = <<>>)
  \/ p.isProcessing

\* handleGenerate up to the setTimeout.
EmojiGenerateClick ==
  /\ route.sender = "emoji_hide"
  /\ ~GenerateDisabled(emojiHidePage)
  /\ emojiHidePage' = [emojiHidePage EXCEPT !.isProcessing = TRUE, !.error = "",
                                            !.result = Undefined]
  /\ UNCHANGED <<unit, env, route, imageVars, emojiTrace, emojiRecipientVars>>

\* The state changes of the timer callback of handleGenerate, r being what
\* it computed.
GenerateFinish(r, seed) ==
  /\ emojiHidePage' = [emojiHidePage EXCEPT !.isProcessing = FALSE,
                         !.result = r.stegoText, !.error = r.error]
  /\ emojiTrace' = [done |-> TRUE, page |-> emojiHidePage, seed |-> seed,
                    result |-> r]

\* The timer callback of handleGenerate.
EmojiGenerateRun(seed) ==
  /\ route.sender = "emoji_hide"
  /\ emojiHidePage.isProcessing
  /\ GenerateFinish(GenerateSteps(emojiHidePage, seed, env.Segmenter), seed)
  /\ UNCHANGED <<unit, env, route, imageVars, emojiRecipientVars>>

(***************************************************************************)
(* Transfer of the text.  The sender copies the result, sends it and       *)
(* leaves the page, which unmounts EmojiHidePage.                          *)
(***************************************************************************)
LeaveEmojiHidePage ==
  /\ route' = [route EXCEPT !.sender = "about"]
  /\ emojiHidePage' = EmojiHidePageInit

\* The text reaches the recipient as it was generated.
SendText ==
  /\ route.sender = "emoji_hide"
  /\ ~emojiHidePage.isProcessing
  /\ emojiHidePage.result # Undefined
  /\ sentText' = emojiHidePage.result
  /\ LeaveEmojiHidePage
  /\ UNCHANGED <<unit, env, imageVars, emojiTrace, textEdit, emojiRevealPage,
                 emojiRevealTrace>>

IsBitChar(char) == char = BIT_0 \/ char = BIT_1

\* Changes to the characters of a text other than U+200B and U+200C:
\* all of them removed, each replaced by "?", a character put in front, at
\* the end, or after the first invisible character.
EditKinds == {"strip", "replace", "prepend", "append", "between"}

RECURSIVE FirstBitChar(_, _)
FirstBitChar(text, i) ==
  IF i > Len(text) THEN 0
  ELSE IF IsBitChar(text[i]) THEN i
  ELSE FirstBitChar(text, i + 1)

EditText(text, kind) ==
  CASE kind = "strip" -> SelectSeq(text, IsBitChar)
    [] kind = "replace" -> [i \in 1..Len(text) |->
                              IF IsBitChar(text[i]) THEN text[i] ELSE 63]
    [] kind = "prepend" -> <<120>> \o text
    [] kind = "append" -> text \o <<128512, 120>>
    [] kind = "between" ->
         LET i == FirstBitChar(text, 1)
         IN  SubSeq(text, 1, i) \o <<120>> \o SubSeq(text, i + 1, Len(text))

\* The text is changed on its way (a messenger that strips or rewrites emoji).
SendTextEdited(kind) ==
  /\ route.sender = "emoji_hide"
  /\ ~emojiHidePage.isProcessing
  /\ emojiHidePage.result # Undefined
  /\ ~emojiHidePage.useEncryption
  /\ sentText' = EditText(emojiHidePage.result, kind)
  /\ textEdit' = kind
  /\ LeaveEmojiHidePage
  /\ UNCHANGED <<unit, env, imageVars, emojiTrace, emojiRevealPage, emojiRevealTrace>>

(***************************************************************************)
(* EmojiRevealPage.                                                        *)
(***************************************************************************)
\* The useState initial values of EmojiRevealPage; result = Undefined is null.
EmojiRevealPageInit ==
  [inputText |-> <<>>, password |-> <<>>, isProcessing |-> FALSE,
   error |-> "", result |-> Undefined]

NoEmojiRevealTrace ==
  [done |-> FALSE, password |-> <<>>, decoded |-> EmojiError(""), outcome |-> "",
   calls |-> <<>>]

\* What the timer callback of handleReveal does with the result of
\* decodeEmojiMessage.  outcome "revealed": setResult(messageText); anything
\* else is the message given to setError.
EmojiRevealDecoded(decodedData, password) ==
  LET key == deriveKey(password, decodedData.salt, ITERATIONS)
      opened == IF decodedData.isEncrypted
                  THEN decryptData(decodedData.payload, key, decodedData.iv)
                  ELSE [ok |-> TRUE, data |-> decodedData.payload]
      outcome ==
        IF ~decodedData.ok THEN decodedData.err
        ELSE IF decodedData.isEncrypted /\ PasswordMissing(password)
          THEN "This message is encrypted. Please enter the password."
        ELSE IF ~opened.ok THEN "Invalid password or corrupted data."
        ELSE "revealed"
  IN  [outcome |-> outcome, decoded |-> decodedData,
       \* history: the calls of crypto.ts made after the decoding, in order
       calls |-> IF decodedData.ok /\ decodedData.isEncrypted
                      /\ ~PasswordMissing(password)
                   THEN <<"deriveKey", "decryptData">> ELSE <<>>,
       messageText |-> IF outcome = "revealed" THEN TextDecode(opened.data)
                       ELSE Undefined]

\* What the timer callback of handleReveal computes.
EmojiRevealSteps(inputText, password) ==
  EmojiRevealDecoded(decodeEmojiMessage(inputText), password)

\* Home page -> "Emoji Reveal" mounts a fresh EmojiRevealPage.
NavigateEmojiReveal ==
  /\ route.recipient = "home"
  /\ sentText # Undefined
  /\ route' = [route EXCEPT !.recipient = "emoji_reveal"]
  /\ emojiRevealPage' = EmojiRevealPageInit
  /\ UNCHANGED <<unit, env, imageVars, emojiHidePage, emojiTrace, sentText, textEdit,
                 emojiRevealTrace>>

\* The received text is pasted into the text area (setInputText).
EmojiPaste ==
  /\ route.recipient = "emoji_reveal"
  /\ emojiRevealPage.inputText = <<>>
  /\ sentText # <<>>
  /\ emojiRevealPage' = [emojiRevealPage EXCEPT !.inputText = sentText]
  /\ UNCHANGED <<unit, env, route, imageVars, emojiHidePage, emojiTrace, sentText,
                 textEdit, emojiRevealTrace>>

\* The password field (setPassword): the recipient types a password when
\* the page has asked for one.
EmojiRevealSetPassword(pw) ==
  /\ route.recipient = "emoji_reveal"
  /\ emojiRevealPage.error = "This message is encrypted. Please enter the password."
  /\ ~emojiRevealPage.isProcessing
  /\ emojiRevealPage.password = <<>>
  /\ pw # <<>>
  /\ emojiRevealPage' = [emojiRevealPage EXCEPT !.password = pw]
  /\ UNCHANGED <<unit, env, route, imageVars, emojiHidePage, emojiTrace, sentText,
                 textEdit, emojiRevealTrace>>

\* handleReveal up to the setTimeout; the button is disabled while
\* !inputText || isProcessing.
EmojiRevealClick ==
  /\ route.recipient = "emoji_reveal"
  /\ emojiRevealPage.inputText # <<>>
  /\ ~emojiRevealPage.isProcessing
  /\ emojiRevealPage' = [emojiRevealPage EXCEPT !.isProcessing = TRUE,
                            !.error = "", !.result = Undefined]
  /\ UNCHANGED <<unit, env, route, imageVars, emojiHidePage, emojiTrace, sentText,
                 textEdit, emojiRevealTrace>>

\* The state changes of the timer callback of handleReveal, r being what it
\* computed.
EmojiRevealFinish(r) ==
  /\ emojiRevealPage' =
        [emojiRevealPage EXCEPT
           !.isProcessing = FALSE, !.result = r.messageText,
           !.error = IF r.outcome = "revealed" THEN "" ELSE r.outcome]
  /\ emojiRevealTrace' =
        [done |-> TRUE, password |-> emojiRevealPage.password,
         decoded |-> r.decoded, outcome |-> r.outcome, calls |-> r.calls]

\* The timer callback of handleReveal.
EmojiRevealRun ==
  /\ route.recipient = "emoji_reveal"
  /\ emojiRevealPage.isProcessing
  /\ EmojiRevealFinish(EmojiRevealSteps(emojiRevealPage.inputText,
                                        emojiRevealPage.password))
  /\ UNCHANGED <<unit, env, route, imageVars, emojiHidePage, emojiTrace, sentText, textEdit>>

(***************************************************************************)
(* Specification.                                                          *)
(***************************************************************************)
vars ==
  <<env, route, hidePage, hideTrace, sentImage, flippedBit, revealPage, revealTrace,
    emojiHidePage, emojiTrace, sentText, textEdit, emojiRevealPage, emojiRevealTrace,
    unit>>

NoEmojiTrace ==
  [done |-> FALSE, page |-> EmojiHidePageInit, seed |-> 0, result |-> NoEmojiResult]

Init ==
  /\ env \in Environments
  /\ route = [sender |-> "home", recipient |-> "home"]
  /\ hidePage = HidePageInit
  /\ hideTrace = NoHideTrace
  /\ sentImage = NoImage
  /\ flippedBit = -1
  /\ revealPage = RevealPageInit
  /\ revealTrace = NoRevealTrace
  /\ emojiHidePage = EmojiHidePageInit
  /\ emojiTrace = NoEmojiTrace
  /\ sentText = Undefined
  /\ textEdit = "none"
  /\ emojiRevealPage = EmojiRevealPageInit
  /\ emojiRevealTrace = NoEmojiRevealTrace
  /\ unit = NoCall

Seeds(p) == IF p.useEncryption THEN 1..MaxSeed ELSE {1}

Next ==
  \/ NavigateHide
  \/ \E f \in HideForms(env) : HideFillForm(f)
  \/ HideClick
  \/ \E seed \in Seeds(hidePage) : HideRun(seed)
  \/ HideReuseOutput
  \/ SendImage
  \/ SendCarrier
  \/ \E k \in 0..(8 * Len(hideTrace.result.finalBlob) - 1) : SendImageFlipped(k)
  \/ \E k \in 0..(8 * hideTrace.result.headerLength - 1) : SendEncryptedImageFlipped(k)
  \/ \E kdf \in {0, 2} : SendImageOtherKdf(kdf)
  \/ NavigateReveal
  \/ RevealImageUpload
  \/ \E pw \in {PasswordPw, PasswordPx} : RevealSetPassword(pw)
  \/ RevealClick
  \/ RevealRun
  \/ NavigateEmojiHide
  \/ \E f \in EmojiForms(env) : EmojiFillForm(f)
  \/ EmojiGenerateClick
  \/ \E seed \in 1..MaxSeed : EmojiGenerateRun(seed)
  \/ SendText
  \/ \E kind \in EditKinds : SendTextEdited(kind)
  \/ NavigateEmojiReveal
  \/ EmojiPaste
  \/ \E pw \in {PasswordPw, PasswordPx} : EmojiRevealSetPassword(pw)
  \/ EmojiRevealClick
  \/ EmojiRevealRun

Spec == Init /\ [][Next]_vars

(***************************************************************************)
(* Direct calls of the exported helpers, from a caller other than the      *)
(* pages: the arguments are not limited to what handleEmbed passes.  One   *)
(* call is followed per behaviour.                                         *)
(***************************************************************************)
\* Values around the widths 1, 2 and 3 bytes, and the largest 31-bit value.
UnitNums ==
  {0, 1, 200000, 2147483647}
  \cup {Pow2(e) + d : e \in {8, 16, 24}, d \in {-1, 0, 1}}

UnitNames == {<<97>>, <<97, 98>>}
UnitMimes == {TEXT_PLAIN, <<97, 47, 98>>}

\* numToBytes has no throw: threw is FALSE on every call.
CallNumToBytes(num, bytes) ==
  /\ unit.op = "none"
  /\ unit' = [op |-> "numToBytes", num |-> num, bytes |-> bytes,
              threw |-> FALSE, out |-> numToBytes(num, bytes)]
  /\ UNCHANGED <<env, route, imageVars, emojiVars>>

CallBuildStegFileHeader(fileName, mimeType, originalSize, flags, salt, iv, iterations) ==
  LET h == buildStegFileHeader(fileName, mimeType, originalSize, flags, salt, iv,
                               iterations)
  IN  /\ unit.op = "none"
      /\ unit' = [op |-> "buildStegFileHeader", fileName |-> fileName,
                  mimeType |-> mimeType, originalSize |-> originalSize,
                  flags |-> flags, salt |-> salt, iv |-> iv,
                  iterations |-> iterations, threw |-> ~h.ok, out |-> h.bytes]
      /\ UNCHANGED <<env, route, imageVars, emojiVars>>

\* Images of two pixels: white, black, and one with every byte different.
UnitImages ==
  {[width |-> 2, height |-> 1, data |-> [i \in 1..8 |-> 255]],
   [width |-> 2, height |-> 1, data |-> [i \in 1..8 |-> 0]],
   [width |-> 2, height |-> 1, data |-> [i \in 1..8 |-> (37 * i + 90) % 256]]}

\* Blobs of up to MaxBlob bytes over three byte values.
MaxBlob == 4
UnitBlobs == UNION {[1..n -> {0, 92, 255}] : n \in 0..MaxBlob}

CallEmbedData(imageData, fullDataBlob, depth, useAlpha) ==
  LET e == embedData(imageData, fullDataBlob, depth, useAlpha)
  IN  /\ unit.op = "none"
      /\ unit' = [op |-> "embedData", imageData |-> imageData,
                  fullDataBlob |-> fullDataBlob, depth |-> depth,
                  useAlpha |-> useAlpha, threw |-> ~e.ok, out |-> e.imageData]
      /\ UNCHANGED <<env, route, imageVars, emojiVars>>

\* Bodies of an EMOJ message: "hi", four bytes, nothing.
UnitPayloads == {<<104, 105>>, <<222, 173, 190, 239>>, <<>>}

\* The longest run of stray invisible characters put after a text.
MaxStray == 8

\* What happens to a generated text before it is decoded: nothing; every
\* U+200B/U+200C removed ("cover"); invisible characters put after it
\* ("stray"); the bit-th invisible character (from 0) exchanged for the
\* other one ("flip").
UnitEdits(fullLength) ==
  {[kind |-> "none"], [kind |-> "cover"]}
  \cup {[kind |-> "stray", tail |-> [i \in 1..k |-> c]] :
          k \in 1..MaxStray, c \in {BIT_0, BIT_1}}
  \cup {[kind |-> "flip", bit |-> b] : b \in 0..(8 * fullLength - 1)}

\* The positions of the U+200B/U+200C characters of a text, in order.
BitCharPositions(text) ==
  SelectSeq([i \in 1..Len(text) |-> i], LAMBDA i : IsBitChar(text[i]))

UnitEditText(text, edit) ==
  CASE edit.kind = "none" -> text
    [] edit.kind = "cover" -> SelectSeq(text, LAMBDA c : ~IsBitChar(c))
    [] edit.kind = "stray" -> text \o edit.tail
    [] edit.kind = "flip" ->
         LET pos == BitCharPositions(text)[edit.bit + 1]
         IN  [text EXCEPT ![pos] = IF text[pos] = BIT_0 THEN BIT_1 ELSE BIT_0]

\* encodeEmojiMessage followed, after the edit, by decodeEmojiMessage.  With
\* encrypted the salt and iv are those of handleGenerate, else empty arrays.
CallDecodeEmojiMessage(payload, encrypted, edit) ==
  LET flags == IF encrypted THEN 1 ELSE 0
      salt == IF encrypted THEN generateSalt(1) ELSE <<>>
      iv == IF encrypted THEN generateIV(1, IV_LENGTH) ELSE <<>>
      made == encodeEmojiMessage(payload, flags, salt, iv, "mixed", <<>>, 1)
      text == UnitEditText(made, edit)
  IN  /\ unit.op = "none"
      /\ unit' = [op |-> "decodeEmojiMessage", payload |-> payload,
                  flags |-> flags, salt |-> salt, iv |-> iv, edit |-> edit,
                  made |-> made, text |-> text, out |-> decodeEmojiMessage(text)]
      /\ UNCHANGED <<env, route, imageVars, emojiVars>>

UnitNext ==
  \/ \E num \in UnitNums, bytes \in {1, 2, 4} : CallNumToBytes(num, bytes)
  \/ \E payload \in UnitPayloads, encrypted \in BOOLEAN :
        \E edit \in UnitEdits(Len(fullMessageOf(payload, 0,
                        IF encrypted THEN generateSalt(1) ELSE <<>>,
                        IF encrypted THEN generateIV(1, IV_LENGTH) ELSE <<>>))) :
          CallDecodeEmojiMessage(payload, encrypted, edit)
  \/ \E imageData \in UnitImages, fullDataBlob \in UnitBlobs, depth \in 1..4,
        useAlpha \in BOOLEAN :
        CallEmbedData(imageData, fullDataBlob, depth, useAlpha)
  \/ \E fileName \in UnitNames, mimeType \in UnitMimes, originalSize \in {0, 300},
        flags \in {0, FLAG_ENCRYPTED, FLAG_COMPRESSED, FLAG_ENCRYPTED + FLAG_COMPRESSED},
        salt \in {Undefined, generateSalt(1)}, iv \in {Undefined, generateIV(1, IV_LENGTH)},
        iterations \in {0, 1000} :
        CallBuildStegFileHeader(fileName, mimeType, originalSize, flags, salt, iv,
                                iterations)

UnitSpec == Init /\ [][UnitNext]_vars

(***************************************************************************)
(* Properties.                                                             *)
(***************************************************************************)
\* handleEmbed has run to its end at least once.
HideDone == hideTrace.runs >= 1

\* handleReveal has run to its end on the page shown.
RevealDone ==
  /\ route.recipient = "reveal"
  /\ revealTrace.done
  /\ ~revealPage.isProcessing

\* The recipient holds exactly the image handleEmbed produced.
SentAsSaved ==
  /\ hideTrace.runs = 1
  /\ hideTrace.result.ok
  /\ flippedBit = -1
  /\ sentImage = hideTrace.result.imageData

\* The bytes the image offers at a depth and channel mode: floor(W*H*c*d/8).
BytesAvailable(image, depth, useAlpha) ==
  (image.width * image.height * (IF useAlpha THEN 4 ELSE 3) * depth) \div 8

\* C1: an image hide without encryption and without compression, into a
\* carrier with W*H*3 >= length of header + size field + payload, followed by
\* a reveal of the saved image, gives back exactly the hidden name, mime
\* type and bytes.
C1_PlainRoundTrip ==
  (/\ RevealDone
   /\ SentAsSaved
   /\ ~hideTrace.page.useEncryption
   /\ ~hideTrace.page.useCompression
   /\ hideTrace.page.image.width * hideTrace.page.image.height * 3
        >= Len(hideTrace.result.finalBlob))
  => /\ revealTrace.outcome = "decoded"
     /\ revealPage.decodedFile.fileName = hideTrace.result.fileName
     /\ revealPage.decodedFile.mimeType = hideTrace.result.mimeType
     /\ revealPage.decodedFile.data = hideTrace.result.rawData

\* C2: an image hide with encryption under a password, with or without
\* compression, followed by a reveal with the same password, gives back the
\* same bytes, name and mime type, an original size equal to the number of
\* raw bytes, isEncrypted = TRUE, and isCompressed = TRUE exactly when the
\* compressed form was adopted.
C2_EncryptedRoundTrip ==
  (/\ RevealDone
   /\ SentAsSaved
   /\ hideTrace.page.useEncryption
   /\ revealTrace.password = hideTrace.page.password)
  => /\ revealTrace.outcome = "decoded"
     /\ revealPage.decodedFile.data = hideTrace.result.rawData
     /\ revealPage.decodedFile.fileName = hideTrace.result.fileName
     /\ revealPage.decodedFile.mimeType = hideTrace.result.mimeType
     /\ revealPage.decodedFile.originalSize = Len(hideTrace.result.rawData)
     /\ revealPage.decodedFile.isEncrypted
     /\ revealPage.decodedFile.isCompressed
          <=> (/\ hideTrace.page.useCompression
               /\ hideTrace.result.bodyInput = hideTrace.result.compressed
               /\ hideTrace.result.bodyInput # hideTrace.result.rawData)

\* C4: in an image hide with compression switched on, the COMPRESSED flag is
\* set and the gzip output is the body input exactly when the gzip output is
\* strictly shorter than the raw bytes; otherwise (also when compressData
\* hands the data back unchanged) the raw bytes are the body input and the
\* saved image decodes with COMPRESSED unset.
C4_CompressionOpportunism ==
  /\ (HideDone /\ hideTrace.page.useCompression)
     => LET raw == hideTrace.result.rawData
            gz == hideTrace.result.compressed
            shorter == Len(gz) < Len(raw)
        IN  /\ HasFlag(hideTrace.result.flags, FLAG_COMPRESSED) <=> shorter
            /\ hideTrace.result.bodyInput = IF shorter THEN gz ELSE raw
            /\ ~env.CompressionStream => gz = raw
  /\ (RevealDone /\ SentAsSaved /\ hideTrace.page.useCompression)
     => /\ revealTrace.detected
        /\ HasFlag(revealTrace.header.flags, FLAG_COMPRESSED)
             <=> Len(hideTrace.result.compressed) < Len(hideTrace.result.rawData)

\* C4 witness: compression was on, gzip gave as many bytes as the raw data,
\* and the saved image was decoded.
C4_Witness ==
  /\ RevealDone
  /\ SentAsSaved
  /\ hideTrace.page.useCompression
  /\ env.CompressionStream
  /\ hideTrace.result.compressed # hideTrace.result.rawData
  /\ Len(hideTrace.result.compressed) = Len(hideTrace.result.rawData)

\* C5: an image whose hidden stream has one bit of the header region (magic
\* through header CRC) inverted is never decoded: no configuration of the
\* auto-detection accepts its header.
C5_HeaderFlipRejected ==
  (/\ RevealDone
   /\ flippedBit >= 0
   /\ flippedBit < 8 * hideTrace.result.headerLength)
  => /\ ~revealTrace.detected
     /\ ~revealPage.decodedFile.present

\* C8: embedData succeeds exactly when the frame is no longer than
\* floor(W*H*c*d/8) bytes, and otherwise fails with the capacity error.
C8_CapacityHonesty ==
  HideDone =>
    LET fits == Len(hideTrace.result.finalBlob)
                  <= BytesAvailable(hideTrace.page.image, hideTrace.page.lsbDepth,
                                    hideTrace.page.useAlpha)
    IN  /\ hideTrace.result.ok <=> fits
        /\ ~fits => /\ hideTrace.result.error = "Data exceeds capacity."
                    /\ hideTrace.result.imageData = hideTrace.page.image

\* C8 witness: a frame one byte longer than the image offers was refused.
C8_Witness ==
  /\ HideDone
  /\ ~hideTrace.result.ok
  /\ Len(hideTrace.result.finalBlob)
       = BytesAvailable(hideTrace.page.image, hideTrace.page.lsbDepth,
                        hideTrace.page.useAlpha) + 1

\* C9: embedding a frame into the image that embedding the same frame (same
\* depth, same channel mode) produced gives that image again.
C9_IdempotentEmbed ==
  (/\ hideTrace.runs >= 2
   /\ hideTrace.result.ok
   /\ hideTrace.prevResult.ok
   /\ hideTrace.page.image = hideTrace.prevResult.imageData
   /\ hideTrace.result.finalBlob = hideTrace.prevResult.finalBlob
   /\ hideTrace.page.lsbDepth = hideTrace.prevPage.lsbDepth
   /\ hideTrace.page.useAlpha = hideTrace.prevPage.useAlpha)
  => hideTrace.result.imageData = hideTrace.prevResult.imageData

\* C9 witness: the second run embedded the same frame into the output of the
\* first, and the first had changed its carrier.
C9_Witness ==
  /\ hideTrace.runs >= 2
  /\ hideTrace.result.ok
  /\ hideTrace.prevResult.ok
  /\ hideTrace.page.image = hideTrace.prevResult.imageData
  /\ hideTrace.result.finalBlob = hideTrace.prevResult.finalBlob
  /\ hideTrace.page.lsbDepth = hideTrace.prevPage.lsbDepth
  /\ hideTrace.page.useAlpha = hideTrace.prevPage.useAlpha
  /\ hideTrace.prevResult.imageData # hideTrace.prevPage.image

\* handleGenerate has run to its end and produced a text.
EmojiHideDone == emojiTrace.done /\ emojiTrace.result.ok

\* The emoji handleReveal has run to its end on the page shown.
EmojiRevealDone ==
  /\ route.recipient = "emoji_reveal"
  /\ emojiRevealTrace.done
  /\ ~emojiRevealPage.isProcessing

\* The recipient holds exactly the text handleGenerate produced.
EmojiSentAsGenerated ==
  /\ EmojiHideDone
  /\ textEdit = "none"
  /\ sentText = emojiTrace.result.stegoText

C6_EmojiRoundTrip ==
  (/\ EmojiRevealDone
   /\ EmojiSentAsGenerated
   /\ emojiRevealTrace.password = emojiTrace.page.password)
  => /\ emojiRevealTrace.outcome = "revealed"
     /\ emojiRevealPage.result = emojiTrace.page.message

\* C7: changing characters other than U+200B and U+200C in a carrier text
\* (removing them, replacing them, inserting some before, after or between
\* the invisibles) does not change what decodeEmojiMessage returns, and the
\* characters it reads are the U+200B/U+200C of the text in their order.
C7_StripTolerance ==
  (EmojiRevealDone /\ EmojiHideDone /\ textEdit # "none")
  => /\ emojiRevealTrace.decoded = decodeEmojiMessage(emojiTrace.result.stegoText)
     /\ bitString(sentText)
          = SelectSeq(emojiTrace.result.stegoText,
                      LAMBDA c : c = 8203 \/ c = 8204)

\* C7 witness: a text with a character inserted between its invisibles was
\* decoded to the payload that was hidden.
C7_Witness ==
  /\ EmojiRevealDone
  /\ EmojiHideDone
  /\ textEdit = "between"
  /\ sentText # emojiTrace.result.stegoText
  /\ emojiRevealTrace.decoded.ok
  /\ emojiRevealTrace.decoded.payload = emojiTrace.result.payload

\* The number of U+200B and U+200C characters of a text.
ZeroWidthCount(text) == Len(SelectSeq(text, LAMBDA c : c = 8203 \/ c = 8204))

RECURSIVE Flatten(_, _)
Flatten(strings, i) ==
  IF i > Len(strings) THEN <<>> ELSE strings[i] \o Flatten(strings, i + 1)

\* C10 as stated: the generated text holds exactly 8 zero-width characters
\* per body byte (16 for "hi" without encryption).
C10_EightPerBodyByte ==
  EmojiHideDone
  => ZeroWidthCount(emojiTrace.result.stegoText) = 8 * Len(emojiTrace.result.payload)

\* C10, amended: the generated text holds 8 zero-width characters for every
\* byte of the framed message (16 header bytes, salt, iv, body) plus the
\* zero-width characters of the cover graphemes it uses, which the built-in
\* themes do not have; "hi" without encryption and with a built-in theme
\* gives 144.
C10_EightPerFramedByte ==
  EmojiHideDone
  => LET r == emojiTrace.result
         framed == HEADER_STATIC_SIZE + Len(r.salt) + Len(r.iv) + Len(r.payload)
         covers == coverEmojisOf(Max(12, CeilDiv(framed, 16)), emojiTrace.page.theme,
                                 r.customEmojis, emojiTrace.seed)
         count == ZeroWidthCount(r.stegoText)
     IN  /\ count = 8 * framed + ZeroWidthCount(Flatten(covers, 1))
         /\ emojiTrace.page.theme # "custom" => count = 8 * framed
         /\ (/\ emojiTrace.page.message = TextHi
             /\ ~emojiTrace.page.useEncryption
             /\ emojiTrace.page.theme # "custom") => count = 144

\* C10 witness: "hi" was hidden without encryption under the mixed theme.
C10_Witness ==
  /\ EmojiHideDone
  /\ emojiTrace.page.message = TextHi
  /\ ~emojiTrace.page.useEncryption
  /\ emojiTrace.page.theme = "mixed"
  /\ ZeroWidthCount(emojiTrace.result.stegoText) = 144

\* C11: when a call of decodeFile in the auto-detection fails with anything
\* but a magic mismatch (legacy format, unsupported version, end of stream),
\* that call is the last one made and the reveal ends with its error.
C11_OnlyBadMagicRecovers ==
  RevealDone =>
    \A i \in 1..Len(revealTrace.trials) :
      revealTrace.trials[i].err \notin {"", "BadMagic"}
        => /\ i = Len(revealTrace.trials)
           /\ revealTrace.outcome = revealTrace.trials[i].err

\* C12: a reveal without a password of a carrier whose header is accepted
\* and has ENCRYPTED set (image), or whose container decodes and is marked
\* encrypted (emoji), ends with the request for the password: neither
\* deriveKey nor decryptData is called, and no payload and no message text
\* is set.
C12_MissingPassword ==
  /\ (/\ RevealDone
      /\ revealTrace.detected
      /\ HasFlag(revealTrace.header.flags, FLAG_ENCRYPTED)
      /\ revealTrace.password = <<>>)
     => /\ revealTrace.outcome = "password"
        /\ revealPage.debugInfo = "Encrypted payload found. Please enter password."
        /\ revealTrace.calls = <<>>
        /\ ~revealPage.decodedFile.present
  /\ (/\ EmojiRevealDone
      /\ emojiRevealTrace.decoded.ok
      /\ emojiRevealTrace.decoded.isEncrypted
      /\ emojiRevealTrace.password = <<>>)
     => /\ emojiRevealPage.error
             = "This message is encrypted. Please enter the password."
        /\ emojiRevealTrace.calls = <<>>
        /\ emojiRevealPage.result = Undefined

\* C12 witness: an emoji text hidden under a password was revealed without
\* one and the page asked for it.
C12_Witness ==
  /\ EmojiRevealDone
  /\ EmojiSentAsGenerated
  /\ emojiTrace.page.useEncryption
  /\ emojiRevealTrace.decoded.isEncrypted
  /\ emojiRevealTrace.password = <<>>
  /\ emojiRevealPage.error = "This message is encrypted. Please enter the password."

\* The kdf id byte of the hidden stream of the image on the reveal page, read
\* in the configuration the auto-detection accepted: it follows the salt.
KdfIdRead ==
  LET rd(j) == readNextByte(revealPage.image.data, revealTrace.depth,
                            Channels(revealTrace.useAlpha), j)
      nameLen == 256 * rd(10) + rd(11)
      pMime == 12 + nameLen
      mimeLen == 256 * rd(pMime) + rd(pMime + 1)
      pSalt == pMime + 2 + mimeLen + 8
      saltLen == 256 * rd(pSalt) + rd(pSalt + 1)
  IN  rd(pSalt + 2 + saltLen)

\* C13: no header with ENCRYPTED set and a kdf id other than 0x01 is
\* accepted by the auto-detection.
C13_UnknownKdfRejected ==
  (/\ RevealDone
   /\ revealTrace.detected
   /\ HasFlag(revealTrace.header.flags, FLAG_ENCRYPTED))
  => KdfIdRead = 1

(***************************************************************************)
(* C14.  Building a header with the ENCRYPTED flag fails with              *)
(* MissingCryptoParams whenever salt, iv or iterations is absent, and no   *)
(* header bytes are produced.  handleEmbed calls buildStegFileHeader       *)
(* without an iterations argument in every run, so every run with          *)
(* encryption would have to end with the error and an empty header.        *)
(***************************************************************************)
C14_MissingCryptoParams ==
  (HideDone /\ hideTrace.page.useEncryption)
    => /\ ~hideTrace.result.ok
       /\ hideTrace.result.error = "Encrypted flag set but missing Salt or IV"
       /\ hideTrace.result.headerLength = 0

(***************************************************************************)
(* C15.  Writing an integer into a field of fixed width is rejected when   *)
(* the value does not fit the width; a value is never cut down to its low  *)
(* bytes.  For numToBytes: a call with num >= 2^(8*bytes) throws.  The     *)
(* values tried stay below 2^31, so the widths exceeded are 1 and 2.       *)
(***************************************************************************)
C15_WidthChecked ==
  (unit.op = "numToBytes" /\ unit.bytes < 4 /\ unit.num >= Pow2(8 * unit.bytes))
    => unit.threw

(***************************************************************************)
(* C16.  embedData changes only the low d bits of the bytes of the         *)
(* selected channels: in the image a run of handleEmbed gives back, the    *)
(* high 8-d bits of every byte are those of the carrier, the alpha byte of *)
(* every pixel is the carrier's when useAlpha is off, and width, height    *)
(* and buffer length are the carrier's.                                    *)
(***************************************************************************)
C16_EmbedFrame ==
  (HideDone /\ hideTrace.result.ok)
    => LET before == hideTrace.page.image
           after == hideTrace.result.imageData
           d == hideTrace.page.lsbDepth
       IN  /\ after.width = before.width
           /\ after.height = before.height
           /\ Len(after.data) = Len(before.data)
           /\ \A i \in 1..Len(before.data) :
                /\ after.data[i] \div Pow2(d) = before.data[i] \div Pow2(d)
                /\ (~hideTrace.page.useAlpha /\ i % 4 = 0)
                     => after.data[i] = before.data[i]

\* C16 witness: a run without the alpha channel at depth 3 that changed
\* samples of its carrier.
C16_Witness ==
  /\ HideDone
  /\ hideTrace.result.ok
  /\ ~hideTrace.page.useAlpha
  /\ hideTrace.page.lsbDepth = 3
  /\ hideTrace.result.imageData.data # hideTrace.page.image.data

(***************************************************************************)
(* C17.  For a blob B no longer than floor(W*H*c*d/8), embedData embeds    *)
(* it, and reading bytes from the image it gives back, with the same depth *)
(* and channel mode, returns the bytes of B as the first |B| bytes, none   *)
(* of them past the end of the stream.                                     *)
(***************************************************************************)
C17_CodecRoundTrip ==
  (/\ unit.op = "embedData"
   /\ Len(unit.fullDataBlob)
        <= (unit.imageData.width * unit.imageData.height
            * (IF unit.useAlpha THEN 4 ELSE 3) * unit.depth) \div 8)
    => /\ ~unit.threw
       /\ Len(unit.fullDataBlob)
            <= StreamLength(unit.out.data, unit.depth, Channels(unit.useAlpha))
       /\ \A j \in 1..Len(unit.fullDataBlob) :
            readNextByte(unit.out.data, unit.depth, Channels(unit.useAlpha), j - 1)
              = unit.fullDataBlob[j]

\* C17 witness: depth 3 without alpha, a blob of exactly the capacity (2
\* bytes in 18 bits, 16 not a multiple of 3) that changed the image.
C17_Witness ==
  /\ unit.op = "embedData"
  /\ ~unit.threw
  /\ unit.depth = 3
  /\ ~unit.useAlpha
  /\ Len(unit.fullDataBlob) = 2
  /\ unit.fullDataBlob = <<92, 255>>
  /\ unit.out.data # unit.imageData.data

\* The number of the trial that has the configuration (depth, useAlpha).
TrialOf(depth, useAlpha) == 2 * (depth - 1) + (IF useAlpha THEN 2 ELSE 1)

(***************************************************************************)
(* C18.  When the recipient reveals the image as it was saved by a hide at *)
(* (d, alpha), every configuration tried before (d, alpha) is rejected at  *)
(* the magic check, and the configuration accepted is (d, alpha): the      *)
(* trial of (d, alpha) is the last one made and nothing was thrown in it.  *)
(***************************************************************************)
C18_DetectsHidingConfig ==
  (RevealDone /\ SentAsSaved)
    => LET t == TrialOf(hideTrace.page.lsbDepth, hideTrace.page.useAlpha)
       IN  /\ revealTrace.detected
           /\ revealTrace.depth = hideTrace.page.lsbDepth
           /\ revealTrace.useAlpha = hideTrace.page.useAlpha
           /\ Len(revealTrace.trials) = t
           /\ revealTrace.trials[t].err = ""
           /\ \A i \in 1..(t - 1) : revealTrace.trials[i].err = "BadMagic"

\* C18 witness: a reveal of an image saved at depth 3 with alpha on a
\* carrier whose bytes differ (CarrierPattern), after five rejected trials.
C18_Witness ==
  /\ RevealDone
  /\ SentAsSaved
  /\ hideTrace.page.lsbDepth = 3
  /\ hideTrace.page.useAlpha
  /\ hideTrace.page.image = CarrierPattern
  /\ Len(revealTrace.trials) = 6
  /\ revealTrace.detected

\* The order of the spec: (1, RGB), (1, RGBA), (2, RGB), ..., (4, RGBA).
CanonicalOrder ==
  <<[depth |-> 1, useAlpha |-> FALSE], [depth |-> 1, useAlpha |-> TRUE],
    [depth |-> 2, useAlpha |-> FALSE], [depth |-> 2, useAlpha |-> TRUE],
    [depth |-> 3, useAlpha |-> FALSE], [depth |-> 3, useAlpha |-> TRUE],
    [depth |-> 4, useAlpha |-> FALSE], [depth |-> 4, useAlpha |-> TRUE]>>

C21_CapacityExact ==
  (HideDone /\ ~HasFlag(hideTrace.result.flags, FLAG_COMPRESSED))
    => LET p == hideTrace.page
           r == hideTrace.result
           headerSize == estimateHeaderSize(r.fileName, r.mimeType, p.useEncryption)
           capacity == calculateMaxPayloadCapacity(p.image.width, p.image.height,
                         p.lsbDepth, headerSize, p.useEncryption, p.useAlpha)
       IN  r.ok <=> (Len(r.rawData) <= capacity)

(***************************************************************************)
(* C22.  After embedData every sample of the selected channels that comes  *)
(* after the sample holding the last bit of the blob has its low d bits    *)
(* equal to zero.  Sample n (in visiting order) starts at bit n * d.       *)
(***************************************************************************)
C22_TrailingZero ==
  (unit.op = "embedData" /\ ~unit.threw)
    => LET channels == IF unit.useAlpha THEN 4 ELSE 3
           totalBits == 8 * Len(unit.fullDataBlob)
       IN  \A idx \in 0..(Len(unit.out.data) - 1) :
             (/\ idx % 4 < channels
              /\ ((idx \div 4) * channels + (idx % 4)) * unit.depth >= totalBits)
               => unit.out.data[idx + 1] % Pow2(unit.depth) = 0

(***************************************************************************)
(* C23.  decodeEmojiMessage fails with "No hidden emoji data found." on a  *)
(* text without U+200B/U+200C; a generated text followed by 1 to 7 stray   *)
(* invisible characters decodes to the payload, salt, iv and encryption    *)
(* flag it was made from: the last n mod 8 bits are dropped.               *)
(***************************************************************************)
C23_EmojiSalvage ==
  (unit.op = "decodeEmojiMessage")
    => /\ (unit.edit.kind = "cover")
            => /\ Len(unit.text) > 0
               /\ ~unit.out.ok
               /\ unit.out.err = "No hidden emoji data found."
       /\ (unit.edit.kind = "stray" /\ Len(unit.edit.tail) \in 1..7)
            => /\ unit.out.ok
               /\ unit.out.payload = unit.payload
               /\ unit.out.salt = unit.salt
               /\ unit.out.iv = unit.iv
               /\ unit.out.isEncrypted = (unit.flags = 1)

\* C23 witness: "hi" without encryption, seven stray U+200C after the text.
C23_Witness ==
  /\ unit.op = "decodeEmojiMessage"
  /\ unit.edit.kind = "stray"
  /\ unit.edit.tail = <<8204, 8204, 8204, 8204, 8204, 8204, 8204>>
  /\ unit.payload = <<104, 105>>
  /\ ZeroWidthCount(unit.text) = 151
  /\ unit.out.ok
  /\ unit.out.payload = <<104, 105>>

\* The bytes the bit characters of a text spell, most significant bit first.
BytesOfText(text) ==
  LET bits == SelectSeq(text, LAMBDA c : c = 8203 \/ c = 8204)
  IN  [i \in 1..(Len(bits) \div 8) |->
         LET b(j) == IF bits[8 * (i - 1) + j] = 8204 THEN 1 ELSE 0
         IN  128 * b(1) + 64 * b(2) + 32 * b(3) + 16 * b(4)
             + 8 * b(5) + 4 * b(6) + 2 * b(7) + b(8)]

(***************************************************************************)
(* C24.  The CRC of an EMOJ message covers the body only.  The four bytes  *)
(* stored before the body are the CRC-32 of the body bytes alone; a text   *)
(* with one bit of the body inverted is refused with "Data corruption      *)
(* detected (CRC mismatch)." and gives no payload; a text with one bit of  *)
(* an unused flag, of the salt or of the iv inverted is still decoded to   *)
(* the same payload.  h is the number of bytes before the body.            *)
(***************************************************************************)
C24_EmojiCrcBodyOnly ==
  (unit.op = "decodeEmojiMessage")
    => LET h == 16 + Len(unit.salt) + Len(unit.iv)
           stored == BytesOfText(unit.made)
           pIv == 8 + Len(unit.salt)   \* the first byte of the iv, from 0
       IN  /\ SubSeq(stored, h - 3, h) = crcToBytes(crc32(unit.payload))
           /\ SubSeq(stored, h + 1, Len(stored)) = unit.payload
           /\ (unit.edit.kind = "flip" /\ unit.edit.bit >= 8 * h)
                => /\ ~unit.out.ok
                   /\ unit.out.err = "Data corruption detected (CRC mismatch)."
                   /\ unit.out.payload = <<>>
           /\ (/\ unit.edit.kind = "flip"
               /\ \/ unit.edit.bit \in 40..46
                  \/ unit.edit.bit \in 56..(56 + 8 * Len(unit.salt) - 1)
                  \/ unit.edit.bit \in (8 * pIv)..(8 * (pIv + Len(unit.iv)) - 1))
                => /\ unit.out.ok
                   /\ unit.out.payload = unit.payload

\* C24 witness: the lowest bit of the last body byte of DE AD BE EF, stored
\* with salt and iv (bit 383 of 384), was inverted and the text was refused.
C24_Witness ==
  /\ unit.op = "decodeEmojiMessage"
  /\ unit.payload = <<222, 173, 190, 239>>
  /\ unit.flags = 1
  /\ unit.edit.kind = "flip"
  /\ unit.edit.bit = 383
  /\ BytesOfText(unit.text)[48] = 238
  /\ unit.out.err = "Data corruption detected (CRC mismatch)."

(***************************************************************************)
(* C25.  For the framed message M of a run of handleGenerate, with I its   *)
(* invisible string, the text encodeEmojiMessage returns has E =           *)
(* max(12, ceil(|M|/16)) cover graphemes, starts with a cover grapheme,    *)
(* has after the i-th cover the next chunk of at most ceil(|I|/E)          *)
(* invisibles, and its invisible characters read in order are exactly I.   *)
(***************************************************************************)
C25_EmojiInterleave ==
  EmojiHideDone
    => LET r == emojiTrace.result
           M == fullMessageOf(r.payload, r.flags, r.salt, r.iv)
           I == invisibleString(M)
           E == Max(12, CeilDiv(Len(M), 16))
           size == CeilDiv(Len(I), E)
           covers == coverEmojisOf(E, emojiTrace.page.theme, r.customEmojis,
                                   emojiTrace.seed)
           chunk(i) == SubSeq(I, Min((i - 1) * size, Len(I)) + 1,
                              Min(i * size, Len(I)))
       IN  /\ Len(covers) = E
           /\ r.stegoText = Flatten([i \in 1..E |-> covers[i] \o chunk(i)], 1)
           /\ ~IsBitChar(r.stegoText[1])
           /\ SelectSeq(r.stegoText, IsBitChar) = I

\* The elements of a sequence.
Range(seq) == {seq[i] : i \in DOMAIN seq}

\* The calls of a history are those of order, in that order, each at most once.
RECURSIVE InOrder(_, _)
InOrder(calls, order) ==
  IF calls = <<>> THEN TRUE
  ELSE IF order = <<>> THEN FALSE
  ELSE IF calls[1] = order[1] THEN InOrder(Tail(calls), Tail(order))
  ELSE InOrder(calls, Tail(order))

(***************************************************************************)
(* C26.  Within one run of handleEmbed the steps are compress, encrypt,    *)
(* frame, embed in that order: the body of the frame is the encryption of  *)
(* the possibly-compressed bytes (or those bytes themselves), the frame is *)
(* header, body size, body, and the image is embedData of that frame.      *)
(* Within one run of handleReveal the steps are extraction, decryption (if *)
(* ENCRYPTED), decompression (if COMPRESSED): the file shown is the        *)
(* decompression of the decrypted body.                                    *)
(***************************************************************************)
C26_PipelineOrder ==
  /\ HideDone =>
       LET p == hideTrace.page
           r == hideTrace.result
           body == SubSeq(r.finalBlob, r.headerLength + 5, Len(r.finalBlob))
           adopted == HasFlag(r.flags, FLAG_COMPRESSED)
           h == decodeStream(r.finalBlob, Len(r.finalBlob)).header
       IN  /\ InOrder(r.calls, <<"compressData", "deriveKey", "encryptData",
                                 "buildStegFileHeader", "concatBytes", "embedData">>)
           /\ r.calls[Len(r.calls)] = "embedData"
           /\ r.bodyInput = IF adopted THEN compressData(r.rawData, env.CompressionStream)
                            ELSE r.rawData
           /\ adopted => p.useCompression
           /\ bytesToNum(SubSeq(r.finalBlob, r.headerLength + 1, r.headerLength + 4))
                = Len(body)
           /\ IF p.useEncryption
                THEN decryptData(body, deriveKey(p.password, h.salt, ITERATIONS), h.iv)
                       = [ok |-> TRUE, data |-> r.bodyInput]
                ELSE body = r.bodyInput
           /\ r.ok => r.imageData
                        = embedData(p.image, r.finalBlob, p.lsbDepth, p.useAlpha).imageData
  /\ (RevealDone /\ revealTrace.detected) =>
       LET accepted == decodeFile(revealPage.image, revealTrace.depth,
                                  revealTrace.useAlpha)
           h == accepted.header
           encrypted == HasFlag(h.flags, FLAG_ENCRYPTED)
           compressed == HasFlag(h.flags, FLAG_COMPRESSED)
           opened == IF encrypted
                       THEN decryptData(accepted.payload,
                              deriveKey(revealTrace.password, h.salt, h.iterations),
                              h.iv)
                       ELSE [ok |-> TRUE, data |-> accepted.payload]
       IN  /\ InOrder(revealTrace.calls, <<"deriveKey", "decryptData", "decompressData">>)
           /\ ("decompressData" \in Range(revealTrace.calls) /\ encrypted)
                => /\ "decryptData" \in Range(revealTrace.calls)
                   /\ opened.ok
           /\ revealTrace.outcome = "decoded"
                => /\ opened.ok
                   /\ ("decryptData" \in Range(revealTrace.calls)) <=> encrypted
                   /\ ("decompressData" \in Range(revealTrace.calls)) <=> compressed
                   /\ revealPage.decodedFile.data
                        = IF compressed
                            THEN decompressData(opened.data, env.DecompressionStream).data
                            ELSE opened.data

\* C26 witness: a file hidden with compression adopted and with encryption,
\* then revealed with the password.
C26_Witness ==
  /\ RevealDone
  /\ SentAsSaved
  /\ hideTrace.result.calls
       = <<"compressData", "deriveKey", "encryptData", "buildStegFileHeader",
           "concatBytes", "embedData">>
  /\ HasFlag(hideTrace.result.flags, FLAG_COMPRESSED)
  /\ hideTrace.result.bodyInput # hideTrace.result.rawData
  /\ revealTrace.calls = <<"deriveKey", "decryptData", "decompressData">>
  /\ revealTrace.outcome = "decoded"

(***************************************************************************)
(* C27.  An image hidden with encryption whose hidden stream has one bit   *)
(* of the header inverted is not revealed with the correct password: the   *)
(* reveal ends without a file, so no file is shown whose name, mime type,  *)
(* original size or flags differ from what was hidden.                     *)
(***************************************************************************)
C27_EncryptedHeaderFlip ==
  (/\ RevealDone
   /\ hideTrace.page.useEncryption
   /\ flippedBit >= 0
   /\ flippedBit < 8 * hideTrace.result.headerLength
   /\ revealTrace.password = hideTrace.page.password)
  => ~revealPage.decodedFile.present

(***************************************************************************)
(* C28.  End of the stream.                                                *)
(***************************************************************************)
\* The bytes of a W x H image at one configuration, counted from the
\* dimensions: floor(W * H * channels * depth / 8) of them.
ImageBytes(imageData, depth, useAlpha) ==
  [j \in 1..((imageData.width * imageData.height * Channels(useAlpha) * depth) \div 8) |->
     readNextByte(imageData.data, depth, Channels(useAlpha), j - 1)]

\* The array index (from 0) of the sample holding the last bit of the last
\* of n bytes.
LastSampleIndex(n, depth, channels) ==
  LET s == (8 * n - 1) \div depth
  IN  4 * (s \div channels) + (s % channels)

\* The stream starts with the magic and the version.
Framed(stream) ==
  /\ Len(stream) >= 9
  /\ SubSeq(stream, 1, 8) = MAGIC_BYTES_FILE
  /\ stream[9] = VERSION

\* What the length fields of a stream declare, each field taken where the
\* fields before it put it (a byte past the end counting as 0): the body
\* size and the position after the body.
Declared(stream) ==
  LET byte(j) == IF j < Len(stream) THEN stream[j + 1] ELSE 0
      nameLen == 256 * byte(10) + byte(11)
      pMime == 12 + nameLen
      mimeLen == 256 * byte(pMime) + byte(pMime + 1)
      pSize == pMime + 2 + mimeLen
      saltLen == 256 * byte(pSize + 8) + byte(pSize + 9)
      pKdf == pSize + 10 + saltLen
      pCrc == IF HasFlag(byte(9), FLAG_ENCRYPTED)
                THEN pKdf + 6 + byte(pKdf + 5) ELSE pSize + 8
      bodySize == bytesToNum(<<byte(pCrc + 4), byte(pCrc + 5),
                               byte(pCrc + 6), byte(pCrc + 7)>>)
  IN  [bodySize |-> bodySize, end |-> pCrc + 8 + bodySize]

\* The call of decodeFile recorded as trial t agrees with the stream.
TrialAgrees(t, stream) ==
  LET declared == Declared(stream)
  IN  Framed(stream) =>
        IF declared.end > Len(stream) THEN t.err = "EOF" ELSE t.err = ""

\* C28: every call of decodeFile made by a reveal reads
\* floor(W*H*c*d/8) bytes, all of them from samples inside the buffer; on a
\* stream with the magic and the version it throws "EOF" exactly when the
\* length fields put the end of the body past the last byte; and a file
\* shown without decryption and decompression has exactly the declared
\* number of bytes.
C28_UnexpectedEof ==
  RevealDone =>
    /\ \A i \in 1..Len(revealTrace.trials) :
         LET t == revealTrace.trials[i]
         IN  /\ StreamLength(revealPage.image.data, t.depth, Channels(t.useAlpha))
                  = (revealPage.image.width * revealPage.image.height
                       * Channels(t.useAlpha) * t.depth) \div 8
             /\ LastSampleIndex(
                  StreamLength(revealPage.image.data, t.depth, Channels(t.useAlpha)),
                  t.depth, Channels(t.useAlpha)) < Len(revealPage.image.data)
             /\ TrialAgrees(t, ImageBytes(revealPage.image, t.depth, t.useAlpha))
    /\ (/\ revealPage.decodedFile.present
        /\ ~revealPage.decodedFile.isEncrypted
        /\ ~revealPage.decodedFile.isCompressed)
       => Len(revealPage.decodedFile.data)
            = Declared(ImageBytes(revealPage.image, revealTrace.depth,
                                  revealTrace.useAlpha)).bodySize

\* C28 witness: one bit of a length field was inverted in transit, and the
\* call of decodeFile at the configuration of the hiding threw "EOF" on a
\* stream with the magic and the version.
C28_Witness ==
  /\ RevealDone
  /\ flippedBit >= 80
  /\ hideTrace.runs = 1
  /\ \E i \in 1..Len(revealTrace.trials) :
       LET t == revealTrace.trials[i]
       IN  /\ t.depth = hideTrace.page.lsbDepth
           /\ t.useAlpha = hideTrace.page.useAlpha
           /\ t.err = "EOF"
           /\ Framed(ImageBytes(revealPage.image, t.depth, t.useAlpha))
           /\ Declared(ImageBytes(revealPage.image, t.depth, t.useAlpha)).end
                > Len(ImageBytes(revealPage.image, t.depth, t.useAlpha))

(***************************************************************************)
(* C29.  No write before the capacity check.                               *)
(***************************************************************************)
\* C29: a call of embedData throws the capacity error exactly when the blob
\* is longer than floor(W*H*c*d/8) bytes, and the image buffer is then what
\* it was before the call, sample for sample.
C29_NoMutationOnFailure ==
  unit.op = "embedData" =>
    /\ unit.threw <=>
         Len(unit.fullDataBlob)
           > (unit.imageData.width * unit.imageData.height
                * Channels(unit.useAlpha) * unit.depth) \div 8
    /\ unit.threw => unit.out = unit.imageData

\* C29 witness: a call that threw on a blob whose bits differ from the low
\* bits of the samples, so that the loops would have changed the buffer.
C29_Witness ==
  /\ unit.op = "embedData"
  /\ unit.threw
  /\ unit.fullDataBlob # <<>>
  /\ EmbedLoops(unit.imageData, unit.fullDataBlob, unit.depth, unit.useAlpha)
       # unit.imageData
  /\ unit.out = unit.imageData

(***************************************************************************)
(* C30.  The outcome of a reveal request.                                  *)
(***************************************************************************)
\* What HidePage saves for a form, and that image with bit k of the hidden
\* stream inverted.
SavedImage(f) == EmbedSteps(FormPage(f), 1, TRUE).imageData
SavedImageFlipped(f, k) ==
  FlipStreamBit(SavedImage(f), FormPage(f).lsbDepth, FormPage(f).useAlpha, k)

PlainExact == HideForm(CarrierPattern, FileExact, <<>>, <<>>, FALSE, FALSE, 1, FALSE)
SecretExact == HideForm(CarrierWhite, FileExact, <<>>, PasswordPw, TRUE, FALSE, 1, FALSE)

\* The image files a recipient opens on the reveal page: carriers nothing
\* was hidden in, outputs of HidePage (plain, compressed, encrypted), and
\* outputs with one bit of the hidden stream inverted.
ReceivedImages ==
  {CarrierWhite, CarrierPattern}
  \cup {SavedImage(f) : f \in {PlainExact, SecretExact} \cup CompressForms}
  \cup {SavedImageFlipped(PlainExact, k) :
          k \in 0..(8 * Len(EmbedSteps(FormPage(PlainExact), 1, TRUE).finalBlob) - 1)}
  \cup {SavedImageFlipped(SecretExact, k) : k \in 64..103}

\* The reveal page alone, from the moment a file has been received.
RevealInit ==
  /\ env \in {e \in Environments : e.CompressionStream /\ e.Segmenter}
  /\ route = [sender |-> "home", recipient |-> "home"]
  /\ hidePage = HidePageInit
  /\ hideTrace = NoHideTrace
  /\ sentImage \in ReceivedImages
  /\ flippedBit = -1
  /\ revealPage = RevealPageInit
  /\ revealTrace = NoRevealTrace
  /\ emojiHidePage = EmojiHidePageInit
  /\ emojiTrace = NoEmojiTrace
  /\ sentText = Undefined
  /\ textEdit = "none"
  /\ emojiRevealPage = EmojiRevealPageInit
  /\ emojiRevealTrace = NoEmojiRevealTrace
  /\ unit = NoCall

RevealNext ==
  \/ NavigateReveal
  \/ RevealImageUpload
  \/ \E pw \in {PasswordPw, PasswordPx} : RevealSetPassword(pw)
  \/ RevealClick
  \/ RevealRun

\* ENABLED <<RevealRun>>_vars: the timer of handleReveal is pending.  The
\* callback always changes the state, since it ends with isProcessing false.
RevealRunEnabled == route.recipient = "reveal" /\ revealPage.isProcessing

\* Weak fairness of RevealRun, WF_vars(RevealRun), with its enabling
\* condition written out: the callback of setTimeout(..., 100) runs once
\* the timer fires, and nothing cancels the timer.
RevealRunFair == <>[]RevealRunEnabled => []<><<RevealRun>>_vars

RevealSpec == RevealInit /\ [][RevealNext]_vars /\ RevealRunFair

\* How many of the three outcome fields of RevealPage are set.
OutcomesSet ==
  (IF revealPage.decodedFile.present THEN 1 ELSE 0)
  + (IF revealPage.error # "" THEN 1 ELSE 0)
  + (IF revealPage.debugInfo # "" THEN 1 ELSE 0)

\* C30: a reveal request started on a loaded image eventually ends with
\* isProcessing false and exactly one of decoded file, error and password
\* prompt set; a decoded file is never shown together with an error; and
\* while a request runs the outcome fields are empty, those of the request
\* before it having been cleared.
C30_RevealOutcome ==
  /\ [](revealPage.isProcessing => (revealPage.image # NoImage /\ OutcomesSet = 0))
  /\ [](revealPage.decodedFile.present => revealPage.error = "")
  /\ [](RevealDone => OutcomesSet = 1)
  /\ (revealPage.isProcessing ~> (RevealDone /\ OutcomesSet = 1))

\* C30 witness: a second request on the page, made with the password after
\* the first one ended with the prompt, has ended with the decoded file.
C30_Witness ==
  /\ RevealDone
  /\ revealTrace.password # <<>>
  /\ revealTrace.outcome = "decoded"
  /\ revealPage.decodedFile.present
  /\ revealPage.decodedFile.isEncrypted
  /\ revealPage.error = ""
  /\ revealPage.debugInfo = ""

=============================================================================
